---- MODULE Spec2Model ----
(***************************************************************************)
(* Taskflow: the planner's REST routes over its two storage backends.      *)
(*                                                                         *)
(* The repository holds two generations of the server: the in-memory       *)
(* MemStorage with its routes (integer ids from per-entity counters) and   *)
(* the MongoStorage with its routes (ObjectIds, mongoose models, zod       *)
(* schemas of shared/models).  A deployment runs one of them; `backend`    *)
(* is fixed by Init and every route action belongs to one backend.         *)
(*                                                                         *)
(* Records are functions from field names to values, so that the spread    *)
(* `{ ...task, ...taskUpdate }` and `$set` are modelled field by field and *)
(* a field that was never set is absent from the record's domain.          *)
(* Timestamps are integer ticks; CalendarDays groups them into days.       *)
(***************************************************************************)
EXTENDS Integers, FiniteSets, Sequences, TLC

VARIABLES backend, scope, tasks, goals, timeBlocks, dailyPlans, integrations,
          taskIdCounter, goalIdCounter, timeBlockIdCounter, dailyPlanIdCounter,
          integrationIdCounter, oidCounter, resp,
          users, userIdCounter, registering, sessions, patching

vars == <<backend, scope, tasks, goals, timeBlocks, dailyPlans, integrations,
          taskIdCounter, goalIdCounter, timeBlockIdCounter, dailyPlanIdCounter,
          integrationIdCounter, oidCounter, resp,
          users, userIdCounter, registering, sessions, patching>>

stores == <<tasks, goals, timeBlocks, dailyPlans, integrations>>

counters == <<taskIdCounter, goalIdCounter, timeBlockIdCounter,
              dailyPlanIdCounter, integrationIdCounter, oidCounter>>

-----------------------------------------------------------------------------
(* Bounds and value sets *)

\* The number of records one behaviour may create in a collection.
MaxRecords == 2

\* The registered users (MemStorage ids 1, 2; in MongoDB their ObjectIds).
Users == {1, 2}

\* null / undefined in an id or number field; also the malformed id of a request.
NULL == 0

\* The browser sessions that send requests.
Sessions == {"s1", "s2"}

\* The first id a MemStorage counter hands out.
FirstId == 1

\* ObjectIds are unique across collections: the first one after the users'.
FirstOid == Cardinality(Users) + 1

\* The ids a request to a collection may name: the ids stored in it, a malformed
\* id (NULL: parseInt gives NaN, isValidObjectId fails) and a well-formed id that
\* may name no record of the collection (in MongoDB, FirstId is a user's ObjectId).
ReqIds(store) == DOMAIN store \cup {NULL, FirstId}

\* The server clock read by `new Date()` / `Date.now`.
Clock == {0}

\* The empty object {} and the empty Map.
Empty == [f \in {} |-> NULL]

-----------------------------------------------------------------------------
(* Object helpers *)

\* { ...rec, ...upd }
Merge(rec, upd) ==
  [f \in DOMAIN rec \cup DOMAIN upd |-> IF f \in DOMAIN upd THEN upd[f] ELSE rec[f]]

\* the object restricted to the keys of F (zod strips unknown keys; mongoose
\* strict mode drops paths that are not in the schema)
Pick(rec, F) == [f \in DOMAIN rec \cap F |-> rec[f]]

\* rec.f, with dflt standing for undefined
Get(rec, f, dflt) == IF f \in DOMAIN rec THEN rec[f] ELSE dflt

\* a set that files every record under the first id
Put_underFirstId(store, id, rec) ==
  [k \in DOMAIN store \cup {FirstId} |-> IF k = FirstId THEN rec ELSE store[k]]

\* Map.set(id, rec) / a saved document
Put(store, id, rec) == [k \in DOMAIN store \cup {id} |-> IF k = id THEN rec ELSE store[k]]

\* Map.get(id) / findById: the record, or Empty for undefined
Lookup(store, id) == IF id \in DOMAIN store THEN store[id] ELSE Empty

\* the id a stored record carries: `id` in MemStorage, `_id` in a document
RecId(rec) == IF "_id" \in DOMAIN rec THEN rec._id ELSE Get(rec, "id", NULL)

\* a collection that loses every record when one is deleted
Remove_all(store, id) == Empty

\* Map.delete(id) / findByIdAndDelete
Remove(store, id) == [k \in DOMAIN store \ {id} |-> store[k]]

\* What a route handler does: the HTTP status it answers with, the id of the
\* record in the answer's body (NULL when there is none), the collection and the
\* id counter it leaves behind.
Result(status, id, store, counter) ==
  [status |-> status, id |-> id, store |-> store, counter |-> counter]

\* the id counter of the running backend: the entity's own counter in
\* MemStorage, the ObjectId generator in MongoStorage
MemOrOid(counter) == IF backend = "mem" THEN counter ELSE oidCounter

\* the answer as the client sees it
Reply(route, r) == [route |-> route, status |-> r.status]

\* a request is served: its handler runs to its answer, which replaces the
\* collection and the id counter of the entity family it belongs to
Serve(route, r) ==
  /\ tasks' = IF scope = "tasks" THEN r.store ELSE tasks
  /\ goals' = IF scope = "goals" THEN r.store ELSE goals
  /\ timeBlocks' = IF scope = "timeBlocks" THEN r.store ELSE timeBlocks
  /\ dailyPlans' = IF scope = "dailyPlans" THEN r.store ELSE dailyPlans
  /\ integrations' = IF scope = "integrations" THEN r.store ELSE integrations
  /\ taskIdCounter' =
       IF backend = "mem" /\ scope = "tasks" THEN r.counter ELSE taskIdCounter
  /\ goalIdCounter' =
       IF backend = "mem" /\ scope = "goals" THEN r.counter ELSE goalIdCounter
  /\ timeBlockIdCounter' =
       IF backend = "mem" /\ scope = "timeBlocks" THEN r.counter ELSE timeBlockIdCounter
  /\ dailyPlanIdCounter' =
       IF backend = "mem" /\ scope = "dailyPlans" THEN r.counter ELSE dailyPlanIdCounter
  /\ integrationIdCounter' =
       IF backend = "mem" /\ scope = "integrations" THEN r.counter
       ELSE integrationIdCounter
  /\ oidCounter' = IF backend = "mongo" THEN r.counter ELSE oidCounter
  /\ resp' = Reply(route, r)
  /\ UNCHANGED <<backend, scope, users, userIdCounter, registering, patching, sessions>>

-----------------------------------------------------------------------------
(* Storage operations that are alike for every collection *)

\* an update that stores the partial record in place of the record
Mem_update_replaces(store, id, update) ==
  IF id \in DOMAIN store THEN Put(store, id, update) ELSE store

\* MemStorage.update<Entity>: { ...record, ...update } under the same key;
\* nothing happens when the key is absent
Mem_update(store, id, update) ==
  IF id \in DOMAIN store THEN Put(store, id, Merge(store[id], update)) ELSE store

\* what MemStorage.update<Entity> returns: the record it has set, or undefined
\* (here Empty) when no record is stored under id
Mem_updateReturns(store, id, update) == Lookup(Mem_update(store, id, update), id)

\* MongoStorage.update<Entity>: findByIdAndUpdate(id, { $set: update }, { new: true });
\* keys outside the schema are dropped, an update of _id is refused by the
\* database, the error is caught and the method returns undefined
Mongo_update(store, paths, id, update) ==
  IF id \in DOMAIN store /\ "_id" \notin DOMAIN update
  THEN Put(store, id, Merge(store[id], Pick(update, paths)))
  ELSE store

\* what schema.parse throws on input it refuses
ZodError == [name |-> "ZodError"]

-----------------------------------------------------------------------------
(* Route middleware of both route sets *)

\* a middleware that lets every request through to its handler
requireAuth_open(user, store, counter, handled) == handled

\* requireAuth: a request whose session holds no user (req.user is undefined)
\* is answered 401 and its handler never runs; otherwise the handler answers
requireAuth(user, store, counter, handled) ==
  IF user = NULL THEN Result(401, NULL, store, counter) ELSE handled

-----------------------------------------------------------------------------
(* Route helpers of the MongoDB routes *)

isValidObjectId(id) == id # NULL

\* the variant that lets every caller through
checkOwnership_anyone(resourceUserId, userId) == TRUE

checkOwnership(resourceUserId, userId) == resourceUserId = userId

-----------------------------------------------------------------------------
(* Tasks: schemas *)

\* the columns picked by the drizzle insert schema / the keys of the zod object
InsertTaskFields ==
  {"userId", "title", "description", "estimatedDuration", "status", "goalId",
   "priority", "dueDate"}

\* the paths of the mongoose taskSchema
TaskPaths ==
  {"userId", "title", "description", "estimatedDuration", "actualDuration",
   "status", "source", "externalId", "goalId", "priority", "completed",
   "createdAt", "dueDate"}

\* createInsertSchema(tasks).pick(...).parse: userId and title are notNull columns
\* without default, every other picked column is optional; unknown keys are stripped.
Mem_insertTaskSchema(data) ==
  IF {"userId", "title"} \subseteq DOMAIN data
  THEN Pick(data, InsertTaskFields)
  ELSE ZodError

\* z.object({...}).parse of shared/models: title is min(1), status and priority
\* carry defaults, unknown keys are stripped.
Mongo_insertTaskSchema(data) ==
  IF {"userId", "title"} \subseteq DOMAIN data /\ data.title # ""
  THEN Merge([status |-> "todo", priority |-> "medium"], Pick(data, InsertTaskFields))
  ELSE ZodError

\* the bodies of POST /api/tasks
TaskPostBodies ==
  { [title |-> "Write spec", estimatedDuration |-> 45, priority |-> "high", status |-> "todo"],
    [title |-> "Write spec", estimatedDuration |-> 45, priority |-> "high"],
    [title |-> "Write spec", estimatedDuration |-> 45, priority |-> "high", status |-> "done"],
    [estimatedDuration |-> 45, priority |-> "high", status |-> "todo"],
    [title |-> "Write spec", estimatedDuration |-> 45, priority |-> "high", status |-> "todo",
     userId |-> 2, completed |-> TRUE] }

Statuses == {"todo", "in-progress", "done"}

\* the kanban drop sends { status }
KanbanBodies == { [status |-> s] : s \in Statuses }

\* TaskCard.handleCheckChange sends { completed: checked, status: checked ? "done" : task.status }
CheckboxBody(checked, taskStatus) ==
  [completed |-> checked, status |-> IF checked THEN "done" ELSE taskStatus]

CheckboxBodies == { CheckboxBody(c, s) : c \in BOOLEAN, s \in Statuses }

\* the bodies of PATCH /api/tasks/:id
TaskPatchBodies == KanbanBodies \cup CheckboxBodies \cup { [userId |-> u] : u \in Users }

-----------------------------------------------------------------------------
(* Tasks: MemStorage *)

\* a createTask that files every new task under "todo"
Mem_createTask_forcesTodo(insertTask, id, now) ==
  Merge(insertTask,
        [id |-> id, createdAt |-> now, completed |-> FALSE, status |-> "todo",
         actualDuration |-> NULL, externalId |-> NULL])

Mem_createTask(insertTask, id, now) ==
  Merge(insertTask,
        [id |-> id, createdAt |-> now, completed |-> FALSE,
         actualDuration |-> NULL, externalId |-> NULL])

-----------------------------------------------------------------------------
(* Tasks: MongoStorage *)

\* new Task({...taskData, userId, goalId}) with the defaults of taskSchema, then save()
Mongo_createTask(taskData, id, now) ==
  Merge([_id |-> id, status |-> "todo", source |-> "manual", priority |-> "medium",
         completed |-> FALSE, createdAt |-> now],
        Pick(taskData, TaskPaths))

-----------------------------------------------------------------------------
(* Tasks: routes over MemStorage *)

\* a route that lets a userId of the body stand
Mem_POST_tasks_bodyOwner(u, body, now) ==
  LET taskData == Merge([userId |-> u], body)
  IN IF Mem_insertTaskSchema(taskData) # ZodError
     THEN Result(201, taskIdCounter,
                 Put(tasks, taskIdCounter,
                     Mem_createTask(Mem_insertTaskSchema(taskData), taskIdCounter, now)),
                 taskIdCounter + 1)
     ELSE Result(400, NULL, tasks, taskIdCounter)

Mem_POST_tasks(u, body, now) ==
  LET taskData == Merge(body, [userId |-> u])
  IN IF Mem_insertTaskSchema(taskData) # ZodError
     THEN Result(201, taskIdCounter,
                 Put(tasks, taskIdCounter,
                     Mem_createTask(Mem_insertTaskSchema(taskData), taskIdCounter, now)),
                 taskIdCounter + 1)
     ELSE Result(400, NULL, tasks, taskIdCounter)

Mem_PATCH_tasks(u, id, body) ==
  IF Lookup(tasks, id) = Empty THEN Result(404, NULL, tasks, taskIdCounter)
  ELSE IF Lookup(tasks, id).userId # u THEN Result(403, NULL, tasks, taskIdCounter)
  ELSE Result(200, id, Mem_update(tasks, id, body), taskIdCounter)

\* a route that compares the owner before it looks whether a task was found
Mem_DELETE_tasks_ownerFirst(u, id) ==
  IF Get(Lookup(tasks, id), "userId", NULL) # u THEN Result(403, NULL, tasks, taskIdCounter)
  ELSE IF Lookup(tasks, id) = Empty THEN Result(404, NULL, tasks, taskIdCounter)
  ELSE Result(204, NULL, Remove(tasks, id), taskIdCounter)

Mem_DELETE_tasks(u, id) ==
  IF Lookup(tasks, id) = Empty THEN Result(404, NULL, tasks, taskIdCounter)
  ELSE IF Lookup(tasks, id).userId # u THEN Result(403, NULL, tasks, taskIdCounter)
  ELSE Result(204, NULL, Remove(tasks, id), taskIdCounter)

-----------------------------------------------------------------------------
(* Tasks: routes over MongoStorage *)

Mongo_POST_tasks(u, body, now) ==
  LET taskData == Merge(body, [userId |-> u])
  IN IF Mongo_insertTaskSchema(taskData) # ZodError
     THEN Result(201, oidCounter,
                 Put(tasks, oidCounter,
                     Mongo_createTask(Mongo_insertTaskSchema(taskData), oidCounter, now)),
                 oidCounter + 1)
     ELSE Result(400, NULL, tasks, oidCounter)

Mongo_PATCH_tasks(u, id, body) ==
  IF ~isValidObjectId(id) THEN Result(400, NULL, tasks, oidCounter)
  ELSE IF Lookup(tasks, id) = Empty THEN Result(404, NULL, tasks, oidCounter)
  ELSE IF ~checkOwnership(Lookup(tasks, id).userId, u) THEN Result(403, NULL, tasks, oidCounter)
  ELSE Result(200, id, Mongo_update(tasks, TaskPaths, id, body), oidCounter)

Mongo_DELETE_tasks(u, id) ==
  IF ~isValidObjectId(id) THEN Result(400, NULL, tasks, oidCounter)
  ELSE IF Lookup(tasks, id) = Empty THEN Result(404, NULL, tasks, oidCounter)
  ELSE IF ~checkOwnership(Lookup(tasks, id).userId, u) THEN Result(403, NULL, tasks, oidCounter)
  ELSE Result(204, NULL, Remove(tasks, id), oidCounter)

\* the route of the running backend
POST_tasks(u, body, now) ==
  requireAuth(u, tasks, MemOrOid(taskIdCounter),
      IF backend = "mem" THEN Mem_POST_tasks(u, body, now) ELSE Mongo_POST_tasks(u, body, now))

PATCH_tasks(u, id, body) ==
  requireAuth(u, tasks, MemOrOid(taskIdCounter),
      IF backend = "mem" THEN Mem_PATCH_tasks(u, id, body) ELSE Mongo_PATCH_tasks(u, id, body))

DELETE_tasks(u, id) ==
  requireAuth(u, tasks, MemOrOid(taskIdCounter),
      IF backend = "mem" THEN Mem_DELETE_tasks(u, id) ELSE Mongo_DELETE_tasks(u, id))

-----------------------------------------------------------------------------
(* Tasks: the requests *)

PostTask ==
  /\ scope = "tasks"
  /\ taskIdCounter < FirstId + MaxRecords
  /\ oidCounter < FirstOid + MaxRecords
  /\ \E u \in Users, body \in TaskPostBodies, now \in Clock :
       Serve("POST /api/tasks", POST_tasks(u, body, now))

PatchTask ==
  /\ scope = "tasks"
  /\ \E u \in Users, id \in ReqIds(tasks), body \in TaskPatchBodies :
       Serve("PATCH /api/tasks/:id", PATCH_tasks(u, id, body))

DeleteTask ==
  /\ scope = "tasks"
  /\ \E u \in Users, id \in ReqIds(tasks) :
       Serve("DELETE /api/tasks/:id", DELETE_tasks(u, id))

-----------------------------------------------------------------------------
(* Goals: schemas *)

InsertGoalFields ==
  {"userId", "title", "description", "category", "timeframe", "deadline",
   "priority", "parentGoalId"}

\* the paths of the mongoose goalSchema
GoalPaths ==
  {"userId", "title", "description", "category", "timeframe", "progress",
   "deadline", "priority", "parentGoalId", "completed", "createdAt"}

\* createInsertSchema(goals).pick(...): userId, title, category and timeframe are
\* notNull columns without default; parentGoalId is optional and nullable.
Mem_insertGoalSchema(data) ==
  IF {"userId", "title", "category", "timeframe"} \subseteq DOMAIN data
  THEN Pick(data, InsertGoalFields)
  ELSE ZodError

\* z.object({...}) of shared/models: title is min(1), parentGoalId is
\* z.string().optional() and so refuses null, priority has a default.
Mongo_insertGoalSchema(data) ==
  IF /\ {"userId", "title", "category", "timeframe"} \subseteq DOMAIN data
     /\ data.title # ""
     /\ ("parentGoalId" \in DOMAIN data => data.parentGoalId # NULL)
  THEN Merge([priority |-> "medium"], Pick(data, InsertGoalFields))
  ELSE ZodError

\* what the goal form submits for a new goal
GoalForm == [title |-> "Ship", category |-> "work", timeframe |-> "weekly"]

\* the bodies of POST /api/goals; refs are the ids a body may name as parent
GoalPostBodies(refs) ==
  {GoalForm, [category |-> "work", timeframe |-> "weekly"]}
    \cup { Merge(GoalForm, [parentGoalId |-> p]) : p \in refs }

\* the bodies of PATCH /api/goals/:id
GoalPatchBodies(refs) ==
  { [parentGoalId |-> p] : p \in refs } \cup { [userId |-> u] : u \in Users }

-----------------------------------------------------------------------------
(* Goals: MemStorage *)

Mem_createGoal(insertGoal, id, now) ==
  Merge(insertGoal, [id |-> id, progress |-> 0, completed |-> FALSE, createdAt |-> now])

-----------------------------------------------------------------------------
(* Goals: MongoStorage *)

\* new Goal({...goalData, userId, parentGoalId: parentGoalId ? ObjectId : undefined})
Mongo_createGoal(goalData, id, now) ==
  Merge([_id |-> id, progress |-> 0, priority |-> "medium", completed |-> FALSE,
         createdAt |-> now],
        Pick(goalData, GoalPaths))

-----------------------------------------------------------------------------
(* Goals: routes *)

Mem_POST_goals(u, body, now) ==
  LET goalData == Merge(body, [userId |-> u])
  IN IF Mem_insertGoalSchema(goalData) # ZodError
     THEN Result(201, goalIdCounter,
                 Put(goals, goalIdCounter,
                     Mem_createGoal(Mem_insertGoalSchema(goalData), goalIdCounter, now)),
                 goalIdCounter + 1)
     ELSE Result(400, NULL, goals, goalIdCounter)

Mem_PATCH_goals(u, id, body) ==
  IF Lookup(goals, id) = Empty THEN Result(404, NULL, goals, goalIdCounter)
  ELSE IF Lookup(goals, id).userId # u THEN Result(403, NULL, goals, goalIdCounter)
  ELSE Result(200, id, Mem_update(goals, id, body), goalIdCounter)

Mem_DELETE_goals(u, id) ==
  IF Lookup(goals, id) = Empty THEN Result(404, NULL, goals, goalIdCounter)
  ELSE IF Lookup(goals, id).userId # u THEN Result(403, NULL, goals, goalIdCounter)
  ELSE Result(204, NULL, Remove(goals, id), goalIdCounter)

Mongo_POST_goals(u, body, now) ==
  LET goalData == Merge(body, [userId |-> u])
  IN IF Mongo_insertGoalSchema(goalData) # ZodError
     THEN Result(201, oidCounter,
                 Put(goals, oidCounter,
                     Mongo_createGoal(Mongo_insertGoalSchema(goalData), oidCounter, now)),
                 oidCounter + 1)
     ELSE Result(400, NULL, goals, oidCounter)

Mongo_PATCH_goals(u, id, body) ==
  IF ~isValidObjectId(id) THEN Result(400, NULL, goals, oidCounter)
  ELSE IF Lookup(goals, id) = Empty THEN Result(404, NULL, goals, oidCounter)
  ELSE IF ~checkOwnership(Lookup(goals, id).userId, u) THEN Result(403, NULL, goals, oidCounter)
  ELSE Result(200, id, Mongo_update(goals, GoalPaths, id, body), oidCounter)

Mongo_DELETE_goals(u, id) ==
  IF ~isValidObjectId(id) THEN Result(400, NULL, goals, oidCounter)
  ELSE IF Lookup(goals, id) = Empty THEN Result(404, NULL, goals, oidCounter)
  ELSE IF ~checkOwnership(Lookup(goals, id).userId, u) THEN Result(403, NULL, goals, oidCounter)
  ELSE Result(204, NULL, Remove(goals, id), oidCounter)

POST_goals(u, body, now) ==
  requireAuth(u, goals, MemOrOid(goalIdCounter),
      IF backend = "mem" THEN Mem_POST_goals(u, body, now) ELSE Mongo_POST_goals(u, body, now))

PATCH_goals(u, id, body) ==
  requireAuth(u, goals, MemOrOid(goalIdCounter),
      IF backend = "mem" THEN Mem_PATCH_goals(u, id, body) ELSE Mongo_PATCH_goals(u, id, body))

DELETE_goals(u, id) ==
  requireAuth(u, goals, MemOrOid(goalIdCounter),
      IF backend = "mem" THEN Mem_DELETE_goals(u, id) ELSE Mongo_DELETE_goals(u, id))

-----------------------------------------------------------------------------
(* Goals: the requests *)

PostGoal ==
  /\ scope = "goals"
  /\ goalIdCounter < FirstId + MaxRecords
  /\ oidCounter < FirstOid + MaxRecords
  /\ \E u \in Users, body \in GoalPostBodies(ReqIds(goals)), now \in Clock :
       Serve("POST /api/goals", POST_goals(u, body, now))

PatchGoal ==
  /\ scope = "goals"
  /\ \E u \in Users, id \in ReqIds(goals), body \in GoalPatchBodies(ReqIds(goals)) :
       Serve("PATCH /api/goals/:id", PATCH_goals(u, id, body))

\* the bodies of a PATCH /api/goals/:id that retitles a goal; "" is the title
\* of a form submitted with the title field left empty
GoalTitleBodies == { [title |-> t] : t \in {GoalForm.title, ""} }

PatchGoalTitle ==
  /\ scope = "goals"
  /\ \E u \in Users, id \in ReqIds(goals), body \in GoalTitleBodies :
       Serve("PATCH /api/goals/:id", PATCH_goals(u, id, body))

DeleteGoal ==
  /\ scope = "goals"
  /\ \E u \in Users, id \in ReqIds(goals) :
       Serve("DELETE /api/goals/:id", DELETE_goals(u, id))

-----------------------------------------------------------------------------
(* Time blocks: schemas *)

InsertTimeBlockFields ==
  {"userId", "taskId", "startTime", "endTime", "calendarEventId", "buffer"}

\* the paths of the mongoose timeBlockSchema
TimeBlockPaths ==
  {"userId", "taskId", "startTime", "endTime", "calendarEventId", "buffer", "createdAt"}

\* createInsertSchema(timeBlocks).pick(...): userId, startTime and endTime are
\* notNull columns without default.  No refinement relates the two times.
Mem_insertTimeBlockSchema(data) ==
  IF {"userId", "startTime", "endTime"} \subseteq DOMAIN data
  THEN Pick(data, InsertTimeBlockFields)
  ELSE ZodError

\* z.object({... startTime: z.date(), endTime: z.date(), buffer: default(0)})
Mongo_insertTimeBlockSchema(data) ==
  IF {"userId", "startTime", "endTime"} \subseteq DOMAIN data
  THEN Merge([buffer |-> 0], Pick(data, InsertTimeBlockFields))
  ELSE ZodError

\* the instants a time block may start or end at
BlockTimes == {1, 2}

\* the bodies of POST /api/timeblocks
TimeBlockPostBodies ==
  { [startTime |-> s, endTime |-> e] : s \in BlockTimes, e \in BlockTimes }
    \cup { [startTime |-> s] : s \in BlockTimes }

\* the bodies of PATCH /api/timeblocks/:id
TimeBlockPatchBodies ==
  { [endTime |-> e] : e \in BlockTimes } \cup { [userId |-> u] : u \in Users }

-----------------------------------------------------------------------------
(* Time blocks: MemStorage *)

Mem_createTimeBlock(insertTimeBlock, id, now) ==
  Merge(insertTimeBlock, [id |-> id, createdAt |-> now])

-----------------------------------------------------------------------------
(* Time blocks: MongoStorage *)

Mongo_createTimeBlock(timeBlockData, id, now) ==
  Merge([_id |-> id, buffer |-> 0, createdAt |-> now], Pick(timeBlockData, TimeBlockPaths))

-----------------------------------------------------------------------------
(* Time blocks: range query *)

\* a range query that returns the blocks overlapping the range
Mem_getTimeBlocksByUser_overlap(userId, startDate, endDate) ==
  { timeBlocks[id] : id \in
      { i \in DOMAIN timeBlocks :
          /\ timeBlocks[i].userId = userId
          /\ timeBlocks[i].startTime <= endDate
          /\ timeBlocks[i].endTime >= startDate } }

\* Array.from(values()).filter(userId === && startTime >= startDate && endTime <= endDate)
Mem_getTimeBlocksByUser(userId, startDate, endDate) ==
  { timeBlocks[id] : id \in
      { i \in DOMAIN timeBlocks :
          /\ timeBlocks[i].userId = userId
          /\ timeBlocks[i].startTime >= startDate
          /\ timeBlocks[i].endTime <= endDate } }

\* TimeBlock.find({ userId, startTime: { $gte: startDate }, endTime: { $lte: endDate } })
Mongo_getTimeBlocksByUser(userId, startDate, endDate) ==
  { timeBlocks[id] : id \in
      { i \in DOMAIN timeBlocks :
          /\ timeBlocks[i].userId = userId
          /\ startDate <= timeBlocks[i].startTime
          /\ timeBlocks[i].endTime <= endDate } }

getTimeBlocksByUser(userId, startDate, endDate) ==
  IF backend = "mem" THEN Mem_getTimeBlocksByUser(userId, startDate, endDate)
  ELSE Mongo_getTimeBlocksByUser(userId, startDate, endDate)

-----------------------------------------------------------------------------
(* Time blocks: routes *)

Mem_POST_timeblocks(u, body, now) ==
  LET timeBlockData == Merge(body, [userId |-> u])
  IN IF Mem_insertTimeBlockSchema(timeBlockData) # ZodError
     THEN Result(201, timeBlockIdCounter,
                 Put(timeBlocks, timeBlockIdCounter,
                     Mem_createTimeBlock(Mem_insertTimeBlockSchema(timeBlockData),
                                         timeBlockIdCounter, now)),
                 timeBlockIdCounter + 1)
     ELSE Result(400, NULL, timeBlocks, timeBlockIdCounter)

Mem_PATCH_timeblocks(u, id, body) ==
  IF Lookup(timeBlocks, id) = Empty THEN Result(404, NULL, timeBlocks, timeBlockIdCounter)
  ELSE IF Lookup(timeBlocks, id).userId # u
       THEN Result(403, NULL, timeBlocks, timeBlockIdCounter)
  ELSE Result(200, id, Mem_update(timeBlocks, id, body), timeBlockIdCounter)

Mem_DELETE_timeblocks(u, id) ==
  IF Lookup(timeBlocks, id) = Empty THEN Result(404, NULL, timeBlocks, timeBlockIdCounter)
  ELSE IF Lookup(timeBlocks, id).userId # u
       THEN Result(403, NULL, timeBlocks, timeBlockIdCounter)
  ELSE Result(204, NULL, Remove(timeBlocks, id), timeBlockIdCounter)

Mongo_POST_timeblocks(u, body, now) ==
  LET timeBlockData == Merge(body, [userId |-> u])
  IN IF Mongo_insertTimeBlockSchema(timeBlockData) # ZodError
     THEN Result(201, oidCounter,
                 Put(timeBlocks, oidCounter,
                     Mongo_createTimeBlock(Mongo_insertTimeBlockSchema(timeBlockData),
                                           oidCounter, now)),
                 oidCounter + 1)
     ELSE Result(400, NULL, timeBlocks, oidCounter)

Mongo_PATCH_timeblocks(u, id, body) ==
  IF ~isValidObjectId(id) THEN Result(400, NULL, timeBlocks, oidCounter)
  ELSE IF Lookup(timeBlocks, id) = Empty THEN Result(404, NULL, timeBlocks, oidCounter)
  ELSE IF ~checkOwnership(Lookup(timeBlocks, id).userId, u)
       THEN Result(403, NULL, timeBlocks, oidCounter)
  ELSE Result(200, id, Mongo_update(timeBlocks, TimeBlockPaths, id, body), oidCounter)

Mongo_DELETE_timeblocks(u, id) ==
  IF ~isValidObjectId(id) THEN Result(400, NULL, timeBlocks, oidCounter)
  ELSE IF Lookup(timeBlocks, id) = Empty THEN Result(404, NULL, timeBlocks, oidCounter)
  ELSE IF ~checkOwnership(Lookup(timeBlocks, id).userId, u)
       THEN Result(403, NULL, timeBlocks, oidCounter)
  ELSE Result(204, NULL, Remove(timeBlocks, id), oidCounter)

POST_timeblocks(u, body, now) ==
  requireAuth(u, timeBlocks, MemOrOid(timeBlockIdCounter),
      IF backend = "mem" THEN Mem_POST_timeblocks(u, body, now)
      ELSE Mongo_POST_timeblocks(u, body, now))

PATCH_timeblocks(u, id, body) ==
  requireAuth(u, timeBlocks, MemOrOid(timeBlockIdCounter),
      IF backend = "mem" THEN Mem_PATCH_timeblocks(u, id, body)
      ELSE Mongo_PATCH_timeblocks(u, id, body))

DELETE_timeblocks(u, id) ==
  requireAuth(u, timeBlocks, MemOrOid(timeBlockIdCounter),
      IF backend = "mem" THEN Mem_DELETE_timeblocks(u, id) ELSE Mongo_DELETE_timeblocks(u, id))

\* GET /api/timeblocks, the same text in both route sets: 400 unless the query
\* names both ends of the range, else the blocks of the caller in the range
GET_timeblocks(u, query) ==
  requireAuth(u, timeBlocks, MemOrOid(timeBlockIdCounter),
      IF ~({"startDate", "endDate"} \subseteq DOMAIN query)
      THEN Result(400, NULL, timeBlocks, MemOrOid(timeBlockIdCounter))
      ELSE Result(200,
                  { RecId(b) : b \in getTimeBlocksByUser(u, query.startDate, query.endDate) },
                  timeBlocks, MemOrOid(timeBlockIdCounter)))

-----------------------------------------------------------------------------
(* Time blocks: the requests *)

PostTimeBlock ==
  /\ scope = "timeBlocks"
  /\ timeBlockIdCounter < FirstId + MaxRecords
  /\ oidCounter < FirstOid + MaxRecords
  /\ \E u \in Users, body \in TimeBlockPostBodies, now \in Clock :
       Serve("POST /api/timeblocks", POST_timeblocks(u, body, now))

PatchTimeBlock ==
  /\ scope = "timeBlocks"
  /\ \E u \in Users, id \in ReqIds(timeBlocks), body \in TimeBlockPatchBodies :
       Serve("PATCH /api/timeblocks/:id", PATCH_timeblocks(u, id, body))

GetTimeBlocks ==
  /\ scope = "timeBlocks"
  /\ \E u \in Users, query \in
          { [startDate |-> sd, endDate |-> ed] : sd \in BlockTimes, ed \in BlockTimes }
            \cup { [startDate |-> sd] : sd \in BlockTimes } :
       Serve("GET /api/timeblocks", GET_timeblocks(u, query))

DeleteTimeBlock ==
  /\ scope = "timeBlocks"
  /\ \E u \in Users, id \in ReqIds(timeBlocks) :
       Serve("DELETE /api/timeblocks/:id", DELETE_timeblocks(u, id))

-----------------------------------------------------------------------------
(* Dates *)

\* the calendar days, each the set of its instants in time order
CalendarDays == {{0, 1}, {2, 3}}

Dates == UNION CalendarDays

DayOf(date) == CHOOSE day \in CalendarDays : date \in day

\* date.setHours(0, 0, 0, 0)
startOfDay(date) == CHOOSE t \in DayOf(date) : \A s \in DayOf(date) : t <= s

\* date.setHours(23, 59, 59, 999)
endOfDay(date) == CHOOSE t \in DayOf(date) : \A s \in DayOf(date) : s <= t

\* the first record of a collection that satisfies a test, in insertion order
\* (ids are handed out in increasing order), Empty when none does
FirstOf(store, matching) ==
  IF matching = {} THEN Empty
  ELSE store[CHOOSE id \in matching : \A other \in matching : id <= other]

-----------------------------------------------------------------------------
(* Daily plans: schemas *)

InsertDailyPlanFields == {"userId", "date", "notes", "taskIds", "timeBlockIds"}

\* the paths of the mongoose dailyPlanSchema
DailyPlanPaths == {"userId", "date", "notes", "taskIds", "timeBlockIds", "createdAt"}

\* createInsertSchema(dailyPlans).pick(...): userId and date are notNull columns
Mem_insertDailyPlanSchema(data) ==
  IF {"userId", "date"} \subseteq DOMAIN data
  THEN Pick(data, InsertDailyPlanFields)
  ELSE ZodError

\* z.object({userId, date: z.date(), notes?, taskIds: default([]), timeBlockIds: default([])})
Mongo_insertDailyPlanSchema(data) ==
  IF {"userId", "date"} \subseteq DOMAIN data
  THEN Merge([taskIds |-> << >>, timeBlockIds |-> << >>], Pick(data, InsertDailyPlanFields))
  ELSE ZodError

\* the bodies of POST /api/dailyplan
DailyPlanPostBodies == { [date |-> d] : d \in Dates } \cup { [notes |-> "plan"] }

\* the bodies of PATCH /api/dailyplan/:id
DailyPlanPatchBodies ==
  { [date |-> d] : d \in Dates }
    \cup { [date |-> d, userId |-> u] : d \in Dates, u \in Users }
    \cup { [userId |-> u, notes |-> "edited"] : u \in Users }
    \cup { [notes |-> "edited"] }

-----------------------------------------------------------------------------
(* Daily plans: MemStorage *)

\* the variant that compares the stored day with the date as it was passed
Mem_getDailyPlan_rawTarget(userId, date) ==
  FirstOf(dailyPlans,
          { id \in DOMAIN dailyPlans :
              /\ dailyPlans[id].userId = userId
              /\ startOfDay(dailyPlans[id].date) = date })

Mem_getDailyPlan(userId, date) ==
  FirstOf(dailyPlans,
          { id \in DOMAIN dailyPlans :
              /\ dailyPlans[id].userId = userId
              /\ startOfDay(dailyPlans[id].date) = startOfDay(date) })

Mem_createDailyPlan(insertDailyPlan, id, now) ==
  Merge(insertDailyPlan, [id |-> id, createdAt |-> now])

-----------------------------------------------------------------------------
(* Daily plans: MongoStorage *)

\* User.findById(id): the registered users are the only User documents
Mongo_getUser(id) == IF id \in Users THEN [_id |-> id] ELSE Empty

Mongo_getDailyPlan(userId, date) ==
  FirstOf(dailyPlans,
          { id \in DOMAIN dailyPlans :
              /\ dailyPlans[id].userId = userId
              /\ startOfDay(date) <= dailyPlans[id].date
              /\ dailyPlans[id].date <= endOfDay(date) })

Mongo_createDailyPlan(dailyPlanData, id, now) ==
  Merge([_id |-> id, taskIds |-> << >>, timeBlockIds |-> << >>, createdAt |-> now],
        Pick(dailyPlanData, DailyPlanPaths))

getDailyPlan(userId, date) ==
  IF backend = "mem" THEN Mem_getDailyPlan(userId, date) ELSE Mongo_getDailyPlan(userId, date)

-----------------------------------------------------------------------------
(* Daily plans: routes *)

Mem_GET_dailyplan(u, date) ==
  IF Mem_getDailyPlan(u, date) = Empty
  THEN Result(404, NULL, dailyPlans, dailyPlanIdCounter)
  ELSE Result(200, RecId(Mem_getDailyPlan(u, date)), dailyPlans, dailyPlanIdCounter)

Mem_POST_dailyplan(u, body, now) ==
  LET dailyPlanData == Merge(body, [userId |-> u])
  IN IF Mem_insertDailyPlanSchema(dailyPlanData) # ZodError
     THEN Result(201, dailyPlanIdCounter,
                 Put(dailyPlans, dailyPlanIdCounter,
                     Mem_createDailyPlan(Mem_insertDailyPlanSchema(dailyPlanData),
                                         dailyPlanIdCounter, now)),
                 dailyPlanIdCounter + 1)
     ELSE Result(400, NULL, dailyPlans, dailyPlanIdCounter)

\* the plan is looked up by the caller and the date of the body (a body
\* without a date gives an invalid Date, which no plan matches); the plan
\* updated is the one the path names
Mem_PATCH_dailyplan(u, id, body) ==
  LET dailyPlan == IF "date" \in DOMAIN body THEN Mem_getDailyPlan(u, body.date) ELSE Empty
  IN IF dailyPlan = Empty THEN Result(404, NULL, dailyPlans, dailyPlanIdCounter)
     ELSE IF dailyPlan.userId # u THEN Result(403, NULL, dailyPlans, dailyPlanIdCounter)
     ELSE Result(200, id, Mem_update(dailyPlans, id, body), dailyPlanIdCounter)

Mongo_GET_dailyplan(u, date) ==
  IF Mongo_getDailyPlan(u, date) = Empty
  THEN Result(404, NULL, dailyPlans, oidCounter)
  ELSE Result(200, RecId(Mongo_getDailyPlan(u, date)), dailyPlans, oidCounter)

Mongo_POST_dailyplan(u, body, now) ==
  LET dailyPlanData == Merge(body, [userId |-> u])
  IN IF Mongo_insertDailyPlanSchema(dailyPlanData) # ZodError
     THEN Result(201, oidCounter,
                 Put(dailyPlans, oidCounter,
                     Mongo_createDailyPlan(Mongo_insertDailyPlanSchema(dailyPlanData),
                                           oidCounter, now)),
                 oidCounter + 1)
     ELSE Result(400, NULL, dailyPlans, oidCounter)

\* the record fetched is storage.getUser(id); checkOwnership reads
\* req.body.userId and throws on undefined, which the catch turns into 500
Mongo_PATCH_dailyplan(u, id, body) ==
  IF ~isValidObjectId(id) THEN Result(400, NULL, dailyPlans, oidCounter)
  ELSE IF Mongo_getUser(id) = Empty THEN Result(404, NULL, dailyPlans, oidCounter)
  ELSE IF "userId" \notin DOMAIN body THEN Result(500, NULL, dailyPlans, oidCounter)
  ELSE IF ~checkOwnership(body.userId, u) THEN Result(403, NULL, dailyPlans, oidCounter)
  ELSE Result(200, id, Mongo_update(dailyPlans, DailyPlanPaths, id, body), oidCounter)

GET_dailyplan(u, date) ==
  requireAuth(u, dailyPlans, MemOrOid(dailyPlanIdCounter),
      IF backend = "mem" THEN Mem_GET_dailyplan(u, date) ELSE Mongo_GET_dailyplan(u, date))

POST_dailyplan(u, body, now) ==
  requireAuth(u, dailyPlans, MemOrOid(dailyPlanIdCounter),
      IF backend = "mem" THEN Mem_POST_dailyplan(u, body, now)
      ELSE Mongo_POST_dailyplan(u, body, now))

PATCH_dailyplan(u, id, body) ==
  requireAuth(u, dailyPlans, MemOrOid(dailyPlanIdCounter),
      IF backend = "mem" THEN Mem_PATCH_dailyplan(u, id, body)
      ELSE Mongo_PATCH_dailyplan(u, id, body))

-----------------------------------------------------------------------------
(* Daily plans: the requests *)

GetDailyPlan ==
  /\ scope = "dailyPlans"
  /\ \E u \in Users, date \in Dates :
       Serve("GET /api/dailyplan/:date", GET_dailyplan(u, date))

PostDailyPlan ==
  /\ scope = "dailyPlans"
  /\ dailyPlanIdCounter < FirstId + MaxRecords
  /\ oidCounter < FirstOid + MaxRecords
  /\ \E u \in Users, body \in DailyPlanPostBodies, now \in Clock :
       Serve("POST /api/dailyplan", POST_dailyplan(u, body, now))

PatchDailyPlan ==
  /\ scope = "dailyPlans"
  /\ \E u \in Users, id \in ReqIds(dailyPlans), body \in DailyPlanPatchBodies :
       Serve("PATCH /api/dailyplan/:id", PATCH_dailyplan(u, id, body))

-----------------------------------------------------------------------------
(* Integrations: schemas *)

InsertIntegrationFields == {"userId", "type", "credentials"}

\* the paths of the mongoose integrationSchema
IntegrationPaths ==
  {"userId", "type", "credentials", "syncStatus", "lastSynced", "createdAt"}

IntegrationTypes == {"google_calendar", "todoist"}

\* createInsertSchema(integrations).pick(...): all three are notNull columns
Mem_insertIntegrationSchema(data) ==
  IF {"userId", "type", "credentials"} \subseteq DOMAIN data
  THEN Pick(data, InsertIntegrationFields)
  ELSE ZodError

\* z.object({userId: z.string(), type: z.string(), credentials: z.record(z.any())})
Mongo_insertIntegrationSchema(data) ==
  IF {"userId", "type", "credentials"} \subseteq DOMAIN data
  THEN Pick(data, InsertIntegrationFields)
  ELSE ZodError

\* the bodies of POST /api/integrations
IntegrationPostBodies ==
  { [type |-> t, credentials |-> [token |-> "secret"]] : t \in IntegrationTypes }
    \cup { [type |-> t] : t \in IntegrationTypes }

\* the bodies of PATCH /api/integrations/:id
IntegrationPatchBodies ==
  { [type |-> t, syncStatus |-> "active"] : t \in IntegrationTypes }
    \cup { [userId |-> u, syncStatus |-> "active"] : u \in Users }

\* the bodies of DELETE /api/integrations/:id
IntegrationDeleteBodies == { [type |-> t] : t \in IntegrationTypes } \cup {Empty}

-----------------------------------------------------------------------------
(* Integrations: MemStorage *)

Mem_getIntegration(userId, type) ==
  FirstOf(integrations,
          { id \in DOMAIN integrations :
              integrations[id].userId = userId /\ integrations[id].type = type })

Mem_createIntegration(insertIntegration, id, now) ==
  Merge(insertIntegration,
        [id |-> id, syncStatus |-> "inactive", lastSynced |-> NULL, createdAt |-> now])

-----------------------------------------------------------------------------
(* Integrations: MongoStorage *)

Mongo_createIntegration(integrationData, id, now) ==
  Merge([_id |-> id, syncStatus |-> "inactive", createdAt |-> now],
        Pick(integrationData, IntegrationPaths))

-----------------------------------------------------------------------------
(* Integrations: routes *)

Mem_POST_integrations(u, body, now) ==
  LET integrationData == Merge(body, [userId |-> u])
  IN IF Mem_insertIntegrationSchema(integrationData) # ZodError
     THEN Result(201, integrationIdCounter,
                 Put(integrations, integrationIdCounter,
                     Mem_createIntegration(Mem_insertIntegrationSchema(integrationData),
                                           integrationIdCounter, now)),
                 integrationIdCounter + 1)
     ELSE Result(400, NULL, integrations, integrationIdCounter)

\* the integration checked is the caller's own integration of the type the
\* body names (none when the body names no type); the integration updated
\* or deleted is the one the path names
Mem_PATCH_integrations(u, id, body) ==
  LET integration ==
        IF "type" \in DOMAIN body THEN Mem_getIntegration(u, body.type) ELSE Empty
  IN IF integration = Empty THEN Result(404, NULL, integrations, integrationIdCounter)
     ELSE IF integration.userId # u
          THEN Result(403, NULL, integrations, integrationIdCounter)
     ELSE Result(200, id, Mem_update(integrations, id, body), integrationIdCounter)

Mem_DELETE_integrations(u, id, body) ==
  LET integration ==
        IF "type" \in DOMAIN body THEN Mem_getIntegration(u, body.type) ELSE Empty
  IN IF integration = Empty THEN Result(404, NULL, integrations, integrationIdCounter)
     ELSE IF integration.userId # u
          THEN Result(403, NULL, integrations, integrationIdCounter)
     ELSE Result(204, NULL, Remove(integrations, id), integrationIdCounter)

Mongo_POST_integrations(u, body, now) ==
  LET integrationData == Merge(body, [userId |-> u])
  IN IF Mongo_insertIntegrationSchema(integrationData) # ZodError
     THEN Result(201, oidCounter,
                 Put(integrations, oidCounter,
                     Mongo_createIntegration(Mongo_insertIntegrationSchema(integrationData),
                                             oidCounter, now)),
                 oidCounter + 1)
     ELSE Result(400, NULL, integrations, oidCounter)

\* checkOwnership reads req.body.userId and throws on undefined, which the
\* catch turns into 500; the stored integration is never read before the update
Mongo_PATCH_integrations(u, id, body) ==
  IF ~isValidObjectId(id) THEN Result(400, NULL, integrations, oidCounter)
  ELSE IF "userId" \notin DOMAIN body THEN Result(500, NULL, integrations, oidCounter)
  ELSE IF ~checkOwnership(body.userId, u) THEN Result(403, NULL, integrations, oidCounter)
  ELSE IF id \notin DOMAIN integrations THEN Result(404, NULL, integrations, oidCounter)
  ELSE Result(200, id, Mongo_update(integrations, IntegrationPaths, id, body), oidCounter)

Mongo_DELETE_integrations(u, id, body) ==
  IF ~isValidObjectId(id) THEN Result(400, NULL, integrations, oidCounter)
  ELSE IF id \notin DOMAIN integrations THEN Result(404, NULL, integrations, oidCounter)
  ELSE Result(204, NULL, Remove(integrations, id), oidCounter)

POST_integrations(u, body, now) ==
  requireAuth(u, integrations, MemOrOid(integrationIdCounter),
      IF backend = "mem" THEN Mem_POST_integrations(u, body, now)
      ELSE Mongo_POST_integrations(u, body, now))

PATCH_integrations(u, id, body) ==
  requireAuth(u, integrations, MemOrOid(integrationIdCounter),
      IF backend = "mem" THEN Mem_PATCH_integrations(u, id, body)
      ELSE Mongo_PATCH_integrations(u, id, body))

DELETE_integrations(u, id, body) ==
  requireAuth(u, integrations, MemOrOid(integrationIdCounter),
      IF backend = "mem" THEN Mem_DELETE_integrations(u, id, body)
      ELSE Mongo_DELETE_integrations(u, id, body))

-----------------------------------------------------------------------------
(* Integrations: the requests *)

PostIntegration ==
  /\ scope = "integrations"
  /\ integrationIdCounter < FirstId + MaxRecords
  /\ oidCounter < FirstOid + MaxRecords
  /\ \E u \in Users, body \in IntegrationPostBodies, now \in Clock :
       Serve("POST /api/integrations", POST_integrations(u, body, now))

PatchIntegration ==
  /\ scope = "integrations"
  /\ \E u \in Users, id \in ReqIds(integrations), body \in IntegrationPatchBodies :
       Serve("PATCH /api/integrations/:id", PATCH_integrations(u, id, body))

DeleteIntegration ==
  /\ scope = "integrations"
  /\ \E u \in Users, id \in ReqIds(integrations), body \in IntegrationDeleteBodies :
       Serve("DELETE /api/integrations/:id", DELETE_integrations(u, id, body))

-----------------------------------------------------------------------------
(* Routes that read a user's records *)

\* GET /api/tasks: storage.getTasksByUser keeps the tasks whose userId is the
\* session user's; the answer is identified by the ids of its records
GET_tasks(u) ==
  requireAuth(u, tasks, MemOrOid(taskIdCounter),
      Result(200, { id \in DOMAIN tasks : tasks[id].userId = u },
             tasks, MemOrOid(taskIdCounter)))

\* GET /api/tasks/:status: storage.getTasksByStatus
GET_tasks_status(u, status) ==
  requireAuth(u, tasks, MemOrOid(taskIdCounter),
      Result(200,
             { id \in DOMAIN tasks :
                 /\ tasks[id].userId = u
                 /\ "status" \in DOMAIN tasks[id]
                 /\ tasks[id].status = status },
             tasks, MemOrOid(taskIdCounter)))

\* GET /api/goals: storage.getGoalsByUser
GET_goals(u) ==
  requireAuth(u, goals, MemOrOid(goalIdCounter),
      Result(200, { id \in DOMAIN goals : goals[id].userId = u },
             goals, MemOrOid(goalIdCounter)))

\* GET /api/goals/:timeframe: storage.getGoalsByTimeframe
GET_goals_timeframe(u, timeframe) ==
  requireAuth(u, goals, MemOrOid(goalIdCounter),
      Result(200,
             { id \in DOMAIN goals :
                 /\ goals[id].userId = u
                 /\ "timeframe" \in DOMAIN goals[id]
                 /\ goals[id].timeframe = timeframe },
             goals, MemOrOid(goalIdCounter)))

\* GET /api/integrations/:type: 404 when storage.getIntegration finds none
GET_integrations(u, type) ==
  requireAuth(u, integrations, MemOrOid(integrationIdCounter),
      LET integration == Mem_getIntegration(u, type) IN
        IF integration = Empty
        THEN Result(404, NULL, integrations, MemOrOid(integrationIdCounter))
        ELSE Result(200, RecId(integration), integrations,
                    MemOrOid(integrationIdCounter)))

-----------------------------------------------------------------------------
(* Requests on a session without a user *)

\* every request a session of user `u` can send to the routes of the entity
\* family in scope, with the answer of its route
Requests(u) ==
  IF scope = "tasks" THEN
    { [route |-> "POST /api/tasks", result |-> POST_tasks(u, body, now)] :
        body \in TaskPostBodies, now \in Clock }
    \cup { [route |-> "PATCH /api/tasks/:id", result |-> PATCH_tasks(u, id, body)] :
             id \in ReqIds(tasks), body \in TaskPatchBodies }
    \cup { [route |-> "DELETE /api/tasks/:id", result |-> DELETE_tasks(u, id)] :
             id \in ReqIds(tasks) }
    \cup { [route |-> "GET /api/tasks", result |-> GET_tasks(u)] }
    \cup { [route |-> "GET /api/tasks/:status", result |-> GET_tasks_status(u, status)] :
             status \in Statuses }
  ELSE IF scope = "goals" THEN
    { [route |-> "POST /api/goals", result |-> POST_goals(u, body, now)] :
        body \in GoalPostBodies(ReqIds(goals)), now \in Clock }
    \cup { [route |-> "PATCH /api/goals/:id", result |-> PATCH_goals(u, id, body)] :
             id \in ReqIds(goals), body \in GoalPatchBodies(ReqIds(goals)) }
    \cup { [route |-> "DELETE /api/goals/:id", result |-> DELETE_goals(u, id)] :
             id \in ReqIds(goals) }
    \cup { [route |-> "GET /api/goals", result |-> GET_goals(u)] }
    \cup { [route |-> "GET /api/goals/:timeframe",
            result |-> GET_goals_timeframe(u, GoalForm.timeframe)] }
  ELSE IF scope = "timeBlocks" THEN
    { [route |-> "GET /api/timeblocks",
       result |-> GET_timeblocks(u, [startDate |-> sd, endDate |-> ed])] :
        sd \in BlockTimes, ed \in BlockTimes }
    \cup { [route |-> "POST /api/timeblocks", result |-> POST_timeblocks(u, body, now)] :
             body \in TimeBlockPostBodies, now \in Clock }
    \cup { [route |-> "PATCH /api/timeblocks/:id", result |-> PATCH_timeblocks(u, id, body)] :
             id \in ReqIds(timeBlocks), body \in TimeBlockPatchBodies }
    \cup { [route |-> "DELETE /api/timeblocks/:id", result |-> DELETE_timeblocks(u, id)] :
             id \in ReqIds(timeBlocks) }
  ELSE IF scope = "dailyPlans" THEN
    { [route |-> "GET /api/dailyplan/:date", result |-> GET_dailyplan(u, date)] :
        date \in Dates }
    \cup { [route |-> "POST /api/dailyplan", result |-> POST_dailyplan(u, body, now)] :
             body \in DailyPlanPostBodies, now \in Clock }
    \cup { [route |-> "PATCH /api/dailyplan/:id", result |-> PATCH_dailyplan(u, id, body)] :
             id \in ReqIds(dailyPlans), body \in DailyPlanPatchBodies }
  ELSE
    { [route |-> "POST /api/integrations", result |-> POST_integrations(u, body, now)] :
        body \in IntegrationPostBodies, now \in Clock }
    \cup { [route |-> "PATCH /api/integrations/:id",
            result |-> PATCH_integrations(u, id, body)] :
             id \in ReqIds(integrations), body \in IntegrationPatchBodies }
    \cup { [route |-> "DELETE /api/integrations/:id",
            result |-> DELETE_integrations(u, id, body)] :
             id \in ReqIds(integrations), body \in IntegrationDeleteBodies }
    \cup { [route |-> "GET /api/integrations/:type",
            result |-> GET_integrations(u, type)] : type \in IntegrationTypes }

\* a request arrives on a session that holds no user
AnonymousRequest ==
  \E request \in Requests(NULL) : Serve(request.route, request.result)

-----------------------------------------------------------------------------
(* Requests served while the database fails *)

\* the answer of a MongoStorage route whose handler would have answered `r`,
\* when the database call of its storage write fails: create<Entity> logs and
\* rethrows and the POST route's catch answers 400 with error.message;
\* update<Entity> catches and returns undefined, which the PATCH route sends
\* with res.json (200); delete<Entity> catches and returns false, which the
\* DELETE route ignores (204). A request refused before the write is
\* answered as before. Nothing is stored and no id is used.
WhileDbDown(r, store, counter) ==
  CASE r.status = 201 -> Result(400, NULL, store, counter)
    [] r.status = 200 -> Result(200, NULL, store, counter)
    [] r.status = 204 -> Result(204, NULL, store, counter)
    [] OTHER -> r

RequestWhileDbDown ==
  /\ scope = "tasks"
  /\ backend = "mongo"
  /\ \E u \in Users :
       \/ \E body \in TaskPostBodies, now \in Clock :
            Serve("POST /api/tasks", WhileDbDown(POST_tasks(u, body, now), tasks, oidCounter))
       \/ \E id \in ReqIds(tasks), body \in TaskPatchBodies :
            Serve("PATCH /api/tasks/:id",
                  WhileDbDown(PATCH_tasks(u, id, body), tasks, oidCounter))
       \/ \E id \in ReqIds(tasks) :
            Serve("DELETE /api/tasks/:id", WhileDbDown(DELETE_tasks(u, id), tasks, oidCounter))

-----------------------------------------------------------------------------
(* Registration *)

\* the bodies of POST /api/register
RegisterBodies ==
  { [username |-> n, email |-> e] : n \in {"ann", "bob"}, e \in {"ann@x", "bob@x"} }

\* the checks at the head of POST /api/register: the in-memory route looks
\* the username up, the MongoDB route the username and the email
RegisterRefuses(body) ==
  \/ \E id \in DOMAIN users : users[id].username = body.username
  \/ backend = "mongo" /\ \E id \in DOMAIN users : users[id].email = body.email

\* storage.createUser: MemStorage stores under userIdCounter++ whatever it is
\* given; the users collection of MongoDB carries a unique index on username
\* and one on email, and a save that breaks either throws
createUser(body) ==
  IF backend = "mem"
  THEN Result(201, userIdCounter,
              Put(users, userIdCounter, Merge(body, [id |-> userIdCounter])),
              userIdCounter + 1)
  ELSE IF \E id \in DOMAIN users :
            users[id].username = body.username \/ users[id].email = body.email
       THEN Result(500, NULL, users, oidCounter)
       ELSE Result(201, oidCounter,
                   Put(users, oidCounter, Merge(body, [_id |-> oidCounter])),
                   oidCounter + 1)

\* POST /api/register on session sid up to its first await after the checks
\* (hashPassword): either the request is answered 400, or it goes on to
\* create the user
RegisterBegin ==
  /\ scope = "users"
  /\ Cardinality(registering) < MaxRecords
  /\ \E body \in RegisterBodies, sid \in Sessions :
       IF RegisterRefuses(body)
       THEN /\ resp' = [route |-> "POST /api/register", status |-> 400, session |-> sid]
            /\ UNCHANGED registering
       ELSE /\ registering' = registering \cup {[body |-> body, session |-> sid]}
            /\ UNCHANGED resp
  /\ UNCHANGED <<backend, scope, stores, counters, users, userIdCounter, sessions, patching>>

\* the rest of POST /api/register: storage.createUser, then req.login(user),
\* which stores the id of the new user in the session, and the answer
RegisterFinish ==
  /\ scope = "users"
  /\ userIdCounter < FirstId + MaxRecords
  /\ oidCounter < FirstOid + MaxRecords
  /\ \E request \in registering :
       LET created == createUser(request.body) IN
         /\ registering' = registering \ {request}
         /\ users' = created.store
         /\ userIdCounter' = IF backend = "mem" THEN created.counter ELSE userIdCounter
         /\ oidCounter' = IF backend = "mongo" THEN created.counter ELSE oidCounter
         /\ sessions' = IF created.status = 201
                        THEN [sessions EXCEPT ![request.session] = created.id]
                        ELSE sessions
         /\ resp' = Merge(Reply("POST /api/register", created), [session |-> request.session])
  /\ UNCHANGED <<backend, scope, stores, taskIdCounter, goalIdCounter, timeBlockIdCounter,
                 dailyPlanIdCounter, integrationIdCounter, patching>>

-----------------------------------------------------------------------------
(* MemStorage called directly, all collections of one instance together *)

\* createTask, createGoal, createTimeBlock: const id = this.<entity>IdCounter++;
\* the record is set under id (the records of one user suffice here)
MemStorageCreate ==
  /\ backend = "mem" /\ scope = "storage"
  /\ \E u \in Users \ {2}, now \in Clock :
       \/ /\ taskIdCounter < FirstId + MaxRecords
          /\ tasks' = Put(tasks, taskIdCounter,
                          Mem_createTask([userId |-> u, title |-> "Write spec"],
                                         taskIdCounter, now))
          /\ taskIdCounter' = taskIdCounter + 1
          /\ UNCHANGED <<goals, goalIdCounter, timeBlocks, timeBlockIdCounter>>
       \/ /\ goalIdCounter < FirstId + MaxRecords
          /\ goals' = Put(goals, goalIdCounter,
                          Mem_createGoal(Merge(GoalForm, [userId |-> u]), goalIdCounter, now))
          /\ goalIdCounter' = goalIdCounter + 1
          /\ UNCHANGED <<tasks, taskIdCounter, timeBlocks, timeBlockIdCounter>>
       \/ /\ timeBlockIdCounter < FirstId + MaxRecords
          /\ timeBlocks' = Put(timeBlocks, timeBlockIdCounter,
                               Mem_createTimeBlock([userId |-> u, startTime |-> 1, endTime |-> 2],
                                                   timeBlockIdCounter, now))
          /\ timeBlockIdCounter' = timeBlockIdCounter + 1
          /\ UNCHANGED <<tasks, taskIdCounter, goals, goalIdCounter>>
  /\ UNCHANGED <<backend, scope, dailyPlans, integrations, dailyPlanIdCounter,
                 integrationIdCounter, oidCounter, resp, users, userIdCounter, registering,
                 patching,
                 sessions>>

\* updateTask, updateGoal, updateTimeBlock with an id and a partial record
MemStorageUpdate ==
  /\ backend = "mem" /\ scope = "storage"
  /\ \/ \E id \in ReqIds(tasks), partial \in {CheckboxBody(TRUE, "todo")} :
          /\ tasks' = Mem_update(tasks, id, partial)
          /\ UNCHANGED <<goals, timeBlocks>>
     \/ \E id \in ReqIds(goals), partial \in {[progress |-> 50]} :
          /\ goals' = Mem_update(goals, id, partial)
          /\ UNCHANGED <<tasks, timeBlocks>>
     \/ \E id \in ReqIds(timeBlocks), partial \in {[endTime |-> 3]} :
          /\ timeBlocks' = Mem_update(timeBlocks, id, partial)
          /\ UNCHANGED <<tasks, goals>>
  /\ UNCHANGED <<backend, scope, dailyPlans, integrations, counters, resp,
                 users, userIdCounter, registering, patching, sessions>>

\* deleteTask, deleteGoal, deleteTimeBlock: Map.delete(id)
MemStorageDelete ==
  /\ backend = "mem" /\ scope = "storage"
  /\ \/ \E id \in ReqIds(tasks) :
          tasks' = Remove(tasks, id) /\ UNCHANGED <<goals, timeBlocks>>
     \/ \E id \in ReqIds(goals) :
          goals' = Remove(goals, id) /\ UNCHANGED <<tasks, timeBlocks>>
     \/ \E id \in ReqIds(timeBlocks) :
          timeBlocks' = Remove(timeBlocks, id) /\ UNCHANGED <<tasks, goals>>
  /\ UNCHANGED <<backend, scope, dailyPlans, integrations, counters, resp,
                 users, userIdCounter, registering, patching, sessions>>

-----------------------------------------------------------------------------
(* Tasks: the kanban columns of the client *)

\* TasksProvider: todoTasks, inProgressTasks and doneTasks are the tasks of
\* GET /api/tasks filtered on task.status === status
KanbanColumn(u, status) ==
  { id \in GET_tasks(u).id : Get(tasks[id], "status", NULL) = status }

\* POST /api/tasks and PATCH /api/tasks/:id with a body that names a status,
\* one of the three of the kanban board or another string
TaskStatusRequest ==
  /\ scope = "tasks"
  /\ \E u \in Users, status \in Statuses \cup {"archived"} :
       \/ /\ taskIdCounter < FirstId + MaxRecords
          /\ oidCounter < FirstOid + MaxRecords
          /\ \E now \in Clock :
               Serve("POST /api/tasks",
                     POST_tasks(u, [title |-> "Write spec", status |-> status], now))
       \/ \E id \in ReqIds(tasks) :
            Serve("PATCH /api/tasks/:id", PATCH_tasks(u, id, [status |-> status]))

-----------------------------------------------------------------------------
(* Sessions *)

\* a session that looks every request up as the first stored user
deserializeUser_firstUser(sid) ==
  IF DOMAIN users = {} THEN NULL ELSE RecId(FirstOf(users, DOMAIN users))

\* passport.deserializeUser: req.user of a request on session sid is the user
\* storage.getUser finds under the id the session stored (serializeUser
\* stored user.id, resp. user._id); NULL stands for no req.user
deserializeUser(sid) ==
  IF sessions[sid] \in DOMAIN users THEN sessions[sid] ELSE NULL

\* POST /api/login on session sid: the LocalStrategy finds the user by
\* username and compares the password; on success the user's id is stored
\* in the session and the answer is 200, otherwise 401
Login ==
  /\ scope = "users"
  /\ \E sid \in Sessions, body \in RegisterBodies, passwordMatches \in BOOLEAN :
       LET user == FirstOf(users, { id \in DOMAIN users :
                                      users[id].username = body.username })
       IN IF user = Empty \/ ~passwordMatches
          THEN /\ resp' = [route |-> "POST /api/login", status |-> 401, session |-> sid]
               /\ UNCHANGED sessions
          ELSE /\ resp' = [route |-> "POST /api/login", status |-> 200, session |-> sid]
               /\ sessions' = [sessions EXCEPT ![sid] = RecId(user)]
  /\ UNCHANGED <<backend, scope, stores, counters, users, userIdCounter, registering, patching>>

\* POST /api/logout on session sid: req.logout removes the user from the session
Logout ==
  /\ scope = "users"
  /\ \E sid \in Sessions :
       /\ sessions' = [sessions EXCEPT ![sid] = NULL]
       /\ resp' = [route |-> "POST /api/logout", status |-> 200, session |-> sid]
  /\ UNCHANGED <<backend, scope, stores, counters, users, userIdCounter, registering, patching>>

\* GET /api/user on session sid: 401 unless req.isAuthenticated()
GetUser ==
  /\ scope = "users"
  /\ \E sid \in Sessions :
       resp' = [route |-> "GET /api/user",
                status |-> IF deserializeUser(sid) = NULL THEN 401 ELSE 200,
                session |-> sid]
  /\ UNCHANGED <<backend, scope, stores, counters, users, userIdCounter, registering, patching,
                 sessions>>

-----------------------------------------------------------------------------
(* Tasks referred to by time blocks and daily plans *)

\* POST /api/timeblocks with the id of a stored task as taskId, and
\* POST /api/dailyplan with it in taskIds, by any user; one block and one
\* plan are followed
PlanTask ==
  /\ scope = "tasks"
  /\ \E u \in Users, id \in DOMAIN tasks, now \in Clock :
       \/ LET r == POST_timeblocks(u, [startTime |-> 1, endTime |-> 2, taskId |-> id], now)
          IN /\ timeBlocks = Empty
             /\ timeBlocks' = r.store
             /\ timeBlockIdCounter' = IF backend = "mem" THEN r.counter ELSE timeBlockIdCounter
             /\ oidCounter' = IF backend = "mongo" THEN r.counter ELSE oidCounter
             /\ resp' = Reply("POST /api/timeblocks", r)
             /\ UNCHANGED <<dailyPlans, dailyPlanIdCounter>>
       \/ LET r == POST_dailyplan(u, [date |-> 0, taskIds |-> <<id>>], now)
          IN /\ dailyPlans = Empty
             /\ dailyPlans' = r.store
             /\ dailyPlanIdCounter' = IF backend = "mem" THEN r.counter ELSE dailyPlanIdCounter
             /\ oidCounter' = IF backend = "mongo" THEN r.counter ELSE oidCounter
             /\ resp' = Reply("POST /api/dailyplan", r)
             /\ UNCHANGED <<timeBlocks, timeBlockIdCounter>>
  /\ UNCHANGED <<backend, scope, tasks, goals, integrations, taskIdCounter, goalIdCounter,
                 integrationIdCounter, users, userIdCounter, registering, patching, sessions>>

-----------------------------------------------------------------------------
(* Goals: the goal form of the client *)

\* GoalModal.parentGoalOptions: of the goals handed to the form, those that
\* are neither the goal being edited nor a goal whose parentGoalId is that
\* goal; every goal when the form creates one (existingGoal = NULL)
parentGoalOptions(listed, existingGoal) ==
  { g \in listed :
      \/ existingGoal = NULL
      \/ g # existingGoal /\ Get(goals[g], "parentGoalId", NULL) # existingGoal }

\* GoalModal.onSubmit: the form data, with the parent picked among the options
\* or left empty, goes to updateGoal (PATCH /api/goals/:id) when a goal is
\* being edited and to createGoal (POST /api/goals) otherwise
GoalFormSubmit ==
  /\ scope = "goals"
  /\ \E u \in Users :
       \/ /\ goalIdCounter < FirstId + MaxRecords + 1
          /\ oidCounter < FirstOid + MaxRecords + 1
          /\ \E parent \in parentGoalOptions(GET_goals(u).id, NULL) \cup {NULL}, now \in Clock :
               Serve("POST /api/goals",
                     POST_goals(u, Merge(GoalForm, [parentGoalId |-> parent]), now))
       \/ \E existingGoal \in GET_goals(u).id :
            \E parent \in parentGoalOptions(GET_goals(u).id, existingGoal) \cup {NULL} :
              Serve("PATCH /api/goals/:id",
                    PATCH_goals(u, existingGoal, Merge(GoalForm, [parentGoalId |-> parent])))

-----------------------------------------------------------------------------
(* Tasks: a PATCH whose lookup and write are separate steps *)

\* PATCH /api/tasks/:id up to `await storage.updateTask`: a request the checks
\* refuse is answered at once; one that passes them is in flight (patching)
\* until its write runs, and other requests are served in between
PatchTaskLookup ==
  /\ scope = "tasks"
  /\ patching = {}
  /\ \E u \in Users, id \in ReqIds(tasks), body \in KanbanBodies :
       IF PATCH_tasks(u, id, body).status # 200
       THEN Serve("PATCH /api/tasks/:id", PATCH_tasks(u, id, body))
       ELSE /\ patching' = {[user |-> u, id |-> id, body |-> body]}
            /\ UNCHANGED <<backend, scope, stores, counters, resp, users, userIdCounter,
                           registering, sessions>>

\* the rest of the handler: storage.updateTask(id, req.body), which leaves the
\* collection as it is and returns undefined when no task is stored under id,
\* then res.json(updatedTask), which answers 200 whatever it is given
PatchTaskWrite ==
  /\ scope = "tasks"
  /\ \E request \in patching :
       /\ tasks' = IF backend = "mem"
                   THEN Mem_update(tasks, request.id, request.body)
                   ELSE Mongo_update(tasks, TaskPaths, request.id, request.body)
       /\ resp' = [route |-> "PATCH /api/tasks/:id", status |-> 200]
       /\ patching' = patching \ {request}
  /\ UNCHANGED <<backend, scope, goals, timeBlocks, dailyPlans, integrations, counters,
                 users, userIdCounter, registering, sessions>>

-----------------------------------------------------------------------------
(* MemStorage called directly with a partial that carries an id *)

\* updateTask(id, { id: other }): Partial<Task> admits the id field, and
\* { ...task, ...taskUpdate } is set under the key it was read from
MemStorageUpdateId ==
  /\ backend = "mem" /\ scope = "storage"
  /\ \E id \in ReqIds(tasks), other \in ReqIds(tasks) \ {NULL} :
       tasks' = Mem_update(tasks, id, [id |-> other])
  /\ UNCHANGED <<backend, scope, goals, timeBlocks, dailyPlans, integrations, counters,
                 resp, users, userIdCounter, registering, patching, sessions>>

-----------------------------------------------------------------------------
(* Specifications *)

\* the storage as its constructor leaves it; no request has been answered
Constructed ==
  /\ backend \in {"mem", "mongo"}
  /\ tasks = Empty
  /\ goals = Empty
  /\ timeBlocks = Empty
  /\ dailyPlans = Empty
  /\ integrations = Empty
  /\ taskIdCounter = FirstId
  /\ goalIdCounter = FirstId
  /\ timeBlockIdCounter = FirstId
  /\ dailyPlanIdCounter = FirstId
  /\ integrationIdCounter = FirstId
  /\ oidCounter = FirstOid
  /\ resp = [route |-> "none", status |-> NULL]
  /\ registering = {}
  /\ patching = {}
  /\ sessions = [sid \in Sessions |-> NULL]

\* the entity routes are followed from the state in which the users of Users
\* have registered and nothing else has happened
Init ==
  /\ Constructed
  /\ scope \in {"tasks", "goals", "timeBlocks", "dailyPlans", "integrations"}
  /\ users = [u \in Users |->
                Merge([username |-> <<"ann", "bob">>[u], email |-> <<"ann@x", "bob@x">>[u]],
                      IF backend = "mem" THEN [id |-> u] ELSE [_id |-> u])]
  /\ userIdCounter = FirstId + Cardinality(Users)

\* registration is followed from the empty user collection
InitUsers ==
  /\ Constructed
  /\ scope = "users"
  /\ users = Empty
  /\ userIdCounter = FirstId

NextUsers == RegisterBegin \/ RegisterFinish

SpecUsers == InitUsers /\ [][NextUsers]_vars

InitTasks == Init /\ scope = "tasks"

NextTasks == PostTask \/ PatchTask \/ DeleteTask

SpecTasks == InitTasks /\ [][NextTasks]_vars

InitGoals == Init /\ scope = "goals"

NextGoals == PostGoal \/ PatchGoal \/ DeleteGoal

SpecGoals == InitGoals /\ [][NextGoals]_vars

NextGoalTitles == PostGoal \/ PatchGoalTitle \/ DeleteGoal

SpecGoalTitles == InitGoals /\ [][NextGoalTitles]_vars

InitTimeBlocks == Init /\ scope = "timeBlocks"

NextTimeBlocks == GetTimeBlocks \/ PostTimeBlock \/ PatchTimeBlock \/ DeleteTimeBlock

SpecTimeBlocks == InitTimeBlocks /\ [][NextTimeBlocks]_vars

InitOwned == Init /\ scope \in {"tasks", "goals", "timeBlocks"}

NextOwned == NextTasks \/ NextGoals \/ NextTimeBlocks

SpecOwned == InitOwned /\ [][NextOwned]_vars

InitDailyPlans == Init /\ scope = "dailyPlans"

NextDailyPlans == GetDailyPlan \/ PostDailyPlan \/ PatchDailyPlan

SpecDailyPlans == InitDailyPlans /\ [][NextDailyPlans]_vars

InitIntegrations == Init /\ scope = "integrations"

NextIntegrations == PostIntegration \/ PatchIntegration \/ DeleteIntegration

SpecIntegrations == InitIntegrations /\ [][NextIntegrations]_vars

Next ==
  \/ NextTasks \/ NextGoals \/ NextTimeBlocks \/ NextDailyPlans \/ NextIntegrations
  \/ AnonymousRequest

Spec == Init /\ [][Next]_vars

NextTasksDbDown == RequestWhileDbDown \/ NextTasks

SpecTasksDbDown == InitTasks /\ [][NextTasksDbDown]_vars

\* one MemStorage instance as its constructor leaves it
InitMemStorage ==
  /\ Constructed
  /\ backend = "mem"
  /\ scope = "storage"
  /\ users = Empty
  /\ userIdCounter = FirstId

NextMemStorage == MemStorageCreate \/ MemStorageUpdate \/ MemStorageDelete

SpecMemStorage == InitMemStorage /\ [][NextMemStorage]_vars

SpecTaskStatuses == InitTasks /\ [][TaskStatusRequest \/ DeleteTask]_vars

SpecSessions == InitUsers /\ [][NextUsers \/ Login \/ Logout \/ GetUser]_vars

SpecTaskDeletes == InitTasks /\ [][PostTask \/ PlanTask \/ DeleteTask]_vars

SpecCreates ==
  Init /\ [][PostTask \/ PostGoal \/ PostTimeBlock \/ PostDailyPlan \/ PostIntegration]_vars

SpecGoalForm == InitGoals /\ [][GoalFormSubmit]_vars

SpecTaskRaces ==
  InitTasks /\ [][PostTask \/ PatchTaskLookup \/ PatchTaskWrite \/ DeleteTask]_vars

SpecMemStorageIds ==
  InitMemStorage /\ [][MemStorageCreate \/ MemStorageUpdateId \/ MemStorageDelete]_vars

-----------------------------------------------------------------------------
(* Claims about tasks *)

\* C1: every stored task has completed = (status = "done"), after its creation
\* and after every update through the API.
C1_CompletedIffDone ==
  \A id \in DOMAIN tasks :
    Get(tasks[id], "completed", FALSE) = (Get(tasks[id], "status", "undefined") = "done")

\* the InsertTask value the route hands to createTask
TaskData(u, body) ==
  IF backend = "mem"
  THEN Mem_insertTaskSchema(Merge(body, [userId |-> u]))
  ELSE Mongo_insertTaskSchema(Merge(body, [userId |-> u]))

ValidTaskInput(u, body) == TaskData(u, body) # ZodError

-----------------------------------------------------------------------------
(* Claims about goals *)

\* the parent a goal of the collection names, NULL when it names none
ParentIn(store, g) == Get(store[g], "parentGoalId", NULL)

\* following parentGoalId from g reaches target in at most n steps
RECURSIVE ReachesIn(_, _, _, _)
ReachesIn(store, g, target, n) ==
  IF n = 0 \/ g \notin DOMAIN store THEN FALSE
  ELSE ParentIn(store, g) = target \/ ReachesIn(store, ParentIn(store, g), target, n - 1)

OwnAncestor(store, g) == ReachesIn(store, g, g, Cardinality(DOMAIN store))

Acyclic(store) == \A g \in DOMAIN store : ~OwnAncestor(store, g)

\* every parentGoalId names a stored goal, or is null
ParentsResolve(store) ==
  \A g \in DOMAIN store : ParentIn(store, g) \in DOMAIN store \cup {NULL}

\* C5: in every reachable state no goal is its own ancestor, following
\* parentGoalId for chains up to the number of goals.
C5_ParentChainAcyclic == Acyclic(goals)

\* C10: a DELETE /api/goals/:id that removes a goal (204) from a collection
\* whose parent references all resolve and form no cycle leaves a collection
\* whose parent references all resolve and form no cycle.
C10_DeleteKeepsParentsSound ==
  [][ ( /\ resp' = [route |-> "DELETE /api/goals/:id", status |-> 204]
        /\ ParentsResolve(goals) /\ Acyclic(goals) )
      => ( ParentsResolve(goals') /\ Acyclic(goals') ) ]_vars

-----------------------------------------------------------------------------
(* Claims about time blocks *)

-----------------------------------------------------------------------------
(* Claims about ownership *)

\* users other than the owner of a record
Strangers(rec) == Users \ {rec.userId}

Refused(r, store, counter) ==
  r.status = 403 /\ r.store = store /\ r.counter = counter

\* C2: PATCH and DELETE of a stored task, goal or time block by an
\* authenticated user who is not its owner answer 403 and leave the
\* collection as it was, whatever the body.
C2_StrangerRefused ==
  /\ \A id \in DOMAIN tasks : \A u \in Strangers(tasks[id]) :
       /\ \A body \in TaskPatchBodies :
            Refused(PATCH_tasks(u, id, body), tasks, MemOrOid(taskIdCounter))
       /\ Refused(DELETE_tasks(u, id), tasks, MemOrOid(taskIdCounter))
  /\ \A id \in DOMAIN goals : \A u \in Strangers(goals[id]) :
       /\ \A body \in GoalPatchBodies(ReqIds(goals)) :
            Refused(PATCH_goals(u, id, body), goals, MemOrOid(goalIdCounter))
       /\ Refused(DELETE_goals(u, id), goals, MemOrOid(goalIdCounter))
  /\ \A id \in DOMAIN timeBlocks : \A u \in Strangers(timeBlocks[id]) :
       /\ \A body \in TimeBlockPatchBodies :
            Refused(PATCH_timeblocks(u, id, body), timeBlocks, MemOrOid(timeBlockIdCounter))
       /\ Refused(DELETE_timeblocks(u, id), timeBlocks, MemOrOid(timeBlockIdCounter))

\* a stranger's PATCH or DELETE has just been refused while the collection
\* holds records of both users
C2_Witness ==
  /\ resp.status = 403
  /\ resp.route \in {"PATCH /api/goals/:id", "DELETE /api/timeblocks/:id"}
  /\ \E s \in {goals, timeBlocks} :
       \E a, b \in DOMAIN s : s[a].userId # s[b].userId

-----------------------------------------------------------------------------
(* Claims about daily plans *)

\* C4: PATCH /api/dailyplan/:id of a stored plan by an authenticated user who
\* is not its owner answers 403 and leaves the collection as it was,
\* whatever the body.
C4_StrangerPlanPatchRefused ==
  \A id \in DOMAIN dailyPlans : \A u \in Strangers(dailyPlans[id]) :
    \A body \in DailyPlanPatchBodies :
      Refused(PATCH_dailyplan(u, id, body), dailyPlans, MemOrOid(dailyPlanIdCounter))

\* C6: no two stored daily plans have the same user and the same calendar day.
C6_OnePlanPerUserDay ==
  \A a, b \in DOMAIN dailyPlans :
    ( /\ dailyPlans[a].userId = dailyPlans[b].userId
      /\ DayOf(dailyPlans[a].date) = DayOf(dailyPlans[b].date) ) => a = b

\* C7: in any storage state, getDailyPlan for one user and two dates of the
\* same calendar day returns the same plan; and a plan of that user stored
\* with any instant of that day is found from any instant of that day.
C7_SameDaySamePlan ==
  \A u \in Users, d1 \in Dates :
    /\ \A d2 \in DayOf(d1) : getDailyPlan(u, d1) = getDailyPlan(u, d2)
    /\ ( \E id \in DOMAIN dailyPlans :
           dailyPlans[id].userId = u /\ dailyPlans[id].date \in DayOf(d1) )
       => LET plan == getDailyPlan(u, d1)
          IN plan # Empty /\ plan.userId = u /\ plan.date \in DayOf(d1)

\* a GET has just found a plan although no stored plan is dated at midnight,
\* and plans of both days are stored
C7_Witness ==
  /\ resp = [route |-> "GET /api/dailyplan/:date", status |-> 200]
  /\ \A id \in DOMAIN dailyPlans : dailyPlans[id].date # startOfDay(dailyPlans[id].date)
  /\ { DayOf(dailyPlans[id].date) : id \in DOMAIN dailyPlans } = CalendarDays

-----------------------------------------------------------------------------
(* Claims about integrations *)

\* C3: PATCH and DELETE of a stored integration by an authenticated user who
\* is not its owner answer 403 and leave the collection as it was, whatever
\* the body.
C3_StrangerIntegrationRefused ==
  \A id \in DOMAIN integrations : \A u \in Strangers(integrations[id]) :
    /\ \A body \in IntegrationPatchBodies :
         Refused(PATCH_integrations(u, id, body), integrations,
                 MemOrOid(integrationIdCounter))
    /\ \A body \in IntegrationDeleteBodies :
         Refused(DELETE_integrations(u, id, body), integrations,
                 MemOrOid(integrationIdCounter))

-----------------------------------------------------------------------------
(* Claims about references *)

\* the record's reference is null (or was never set), or names a record of
\* the target collection that belongs to the same user
RefOwned(rec, ref, target) ==
  ref = NULL \/ (ref \in DOMAIN target /\ target[ref].userId = rec.userId)

\* the ids of a plan's list, none when the list was never set
ListedIds(rec, field) ==
  IF field \in DOMAIN rec THEN { rec[field][i] : i \in DOMAIN rec[field] } ELSE {}

\* C11: in every reachable state each Task.goalId, TimeBlock.taskId,
\* Goal.parentGoalId and each id listed in a DailyPlan's taskIds and
\* timeBlockIds is null or names a stored record of the same user.
C11_ReferencesOwned ==
  /\ \A id \in DOMAIN tasks : RefOwned(tasks[id], Get(tasks[id], "goalId", NULL), goals)
  /\ \A id \in DOMAIN timeBlocks :
       RefOwned(timeBlocks[id], Get(timeBlocks[id], "taskId", NULL), tasks)
  /\ \A id \in DOMAIN goals :
       RefOwned(goals[id], Get(goals[id], "parentGoalId", NULL), goals)
  /\ \A id \in DOMAIN dailyPlans :
       /\ \A t \in ListedIds(dailyPlans[id], "taskIds") :
            RefOwned(dailyPlans[id], t, tasks)
       /\ \A b \in ListedIds(dailyPlans[id], "timeBlockIds") :
            RefOwned(dailyPlans[id], b, timeBlocks)

-----------------------------------------------------------------------------
(* Claims about the range query *)

\* C12: for every user and range, getTimeBlocksByUser returns stored blocks
\* only; a block of the user that starts at or after startDate and ends at or
\* before endDate is returned (equality included), and a block of another
\* user or one that starts before startDate or ends after endDate is not.
C12_FullyContained ==
  \A u \in Users, sd \in BlockTimes, ed \in BlockTimes :
    LET found == getTimeBlocksByUser(u, sd, ed)
    IN /\ found \subseteq { timeBlocks[id] : id \in DOMAIN timeBlocks }
       /\ \A id \in DOMAIN timeBlocks :
            LET b == timeBlocks[id]
            IN /\ (b.userId = u /\ sd <= b.startTime /\ b.endTime <= ed) => b \in found
               /\ (b.userId # u \/ b.startTime < sd \/ b.endTime > ed) => b \notin found

\* a range query has just been answered while one user holds a block that
\* fills a range exactly and a block that starts in that range and ends after it
C12_Witness ==
  /\ resp = [route |-> "GET /api/timeblocks", status |-> 200]
  /\ \E a, b \in DOMAIN timeBlocks :
       /\ timeBlocks[a].userId = timeBlocks[b].userId
       /\ timeBlocks[a].startTime = timeBlocks[b].startTime
       /\ timeBlocks[a].endTime = timeBlocks[a].startTime
       /\ timeBlocks[b].endTime > timeBlocks[a].endTime
       /\ timeBlocks[a] \in getTimeBlocksByUser(timeBlocks[a].userId,
                                                timeBlocks[a].startTime, timeBlocks[a].endTime)
       /\ timeBlocks[b] \notin getTimeBlocksByUser(timeBlocks[a].userId,
                                                   timeBlocks[a].startTime, timeBlocks[a].endTime)

-----------------------------------------------------------------------------
(* Claims about the two backends *)

\* two records carry the same fields among `fields`, with the same values
SameOn(m, g, fields) ==
  \A f \in fields :
    /\ f \in DOMAIN m <=> f \in DOMAIN g
    /\ f \in DOMAIN m \cap DOMAIN g => m[f] = g[f]

\* C13: in every reachable state, handed the same insert value, MemStorage
\* and MongoStorage create records that agree on every field other than the
\* identifier, defaults (completed, status, priority, progress, buffer,
\* syncStatus) included.
C13_BackendsAgree ==
  \A u \in Users, now \in Clock :
    /\ \A body \in TaskPostBodies :
         LET insertTask == Pick(Merge(body, [userId |-> u]), InsertTaskFields)
         IN "title" \in DOMAIN insertTask =>
              SameOn(Mem_createTask(insertTask, taskIdCounter, now),
                     Mongo_createTask(insertTask, oidCounter, now), TaskPaths)
    /\ \A body \in GoalPostBodies({}) :
         LET insertGoal == Pick(Merge(body, [userId |-> u]), InsertGoalFields)
         IN "title" \in DOMAIN insertGoal =>
              SameOn(Mem_createGoal(insertGoal, goalIdCounter, now),
                     Mongo_createGoal(insertGoal, oidCounter, now), GoalPaths)
    /\ \A body \in TimeBlockPostBodies :
         LET insertTimeBlock == Pick(Merge(body, [userId |-> u]), InsertTimeBlockFields)
         IN "endTime" \in DOMAIN insertTimeBlock =>
              SameOn(Mem_createTimeBlock(insertTimeBlock, timeBlockIdCounter, now),
                     Mongo_createTimeBlock(insertTimeBlock, oidCounter, now), TimeBlockPaths)
    /\ \A body \in IntegrationPostBodies :
         LET insertIntegration == Pick(Merge(body, [userId |-> u]), InsertIntegrationFields)
         IN "credentials" \in DOMAIN insertIntegration =>
              SameOn(Mem_createIntegration(insertIntegration, integrationIdCounter, now),
                     Mongo_createIntegration(insertIntegration, oidCounter, now),
                     IntegrationPaths \ {"lastSynced"})

-----------------------------------------------------------------------------
(* Claims about unauthenticated requests *)

\* the collection and the id counter of the entity family in scope
ScopeStore ==
  CASE scope = "tasks" -> tasks [] scope = "goals" -> goals
    [] scope = "timeBlocks" -> timeBlocks [] scope = "dailyPlans" -> dailyPlans
    [] OTHER -> integrations

ScopeCounter ==
  MemOrOid(CASE scope = "tasks" -> taskIdCounter [] scope = "goals" -> goalIdCounter
             [] scope = "timeBlocks" -> timeBlockIdCounter
             [] scope = "dailyPlans" -> dailyPlanIdCounter
             [] OTHER -> integrationIdCounter)

\* C14: in every reachable state, every request to a task, goal, time-block,
\* daily-plan or integration route on a session without a user is answered
\* 401 and leaves the collection and the id counter as they were.
C14_AnonymousRejected ==
  \A request \in Requests(NULL) :
    /\ request.result.status = 401
    /\ request.result.store = ScopeStore
    /\ request.result.counter = ScopeCounter

\* an anonymous request to an integration route has just been answered 401
\* while integrations of both users are stored
C14_Witness ==
  /\ resp.status = 401
  /\ resp.route = "DELETE /api/integrations/:id"
  /\ { integrations[id].userId : id \in DOMAIN integrations } = Users

-----------------------------------------------------------------------------
(* Claims about requests addressed to an absent id *)

\* well-formed ids a request can carry for which `store` holds no record
AbsentIds(store, counter) ==
  { id \in ReqIds(store) \cup {counter} :
      id \notin DOMAIN store /\ (backend = "mongo" => isValidObjectId(id)) }

NotFound(r, store, counter) ==
  r.status = 404 /\ r.store = store /\ r.counter = counter

-----------------------------------------------------------------------------
(* Claims about validation of request bodies *)

\* the goal input the route of the running backend hands to its schema is refused
GoalInputRefused(data) ==
  IF backend = "mem" THEN Mem_insertGoalSchema(data) = ZodError
  ELSE Mongo_insertGoalSchema(data) = ZodError

\* C16: a POST /api/goals whose body the goal schema refuses, and a PATCH
\* /api/goals/:id by the owner whose body carries a field the goal schema
\* refuses (the body's fields laid over an input the schema accepts), are
\* answered 400 and leave the goals as they were.
C16_InvalidBodyRejected ==
  /\ \A u \in Users, body \in GoalPostBodies(ReqIds(goals)), now \in Clock :
       GoalInputRefused(Merge(body, [userId |-> u]))
         => LET r == POST_goals(u, body, now)
            IN r.status = 400 /\ r.store = goals /\ r.counter = MemOrOid(goalIdCounter)
  /\ \A id \in DOMAIN goals, body \in GoalPatchBodies(ReqIds(goals)) \cup GoalTitleBodies :
       GoalInputRefused(Merge(Merge(GoalForm, [userId |-> goals[id].userId]), body))
         => LET r == PATCH_goals(goals[id].userId, id, body)
            IN r.status = 400 /\ r.store = goals /\ r.counter = MemOrOid(goalIdCounter)

-----------------------------------------------------------------------------
(* Claims about backend failures *)

\* C17: every step in which a task route is served while the database fails
\* at its storage write (a create, an update or a delete that passed the
\* route's checks) is answered 500; in particular a failed update is never
\* answered 200.
C17_BackendFailureIs500 ==
  [][ \A u \in Users :
        /\ \A body \in TaskPostBodies, now \in Clock :
             ( /\ POST_tasks(u, body, now).status = 201
               /\ Serve("POST /api/tasks",
                        WhileDbDown(POST_tasks(u, body, now), tasks, oidCounter)) )
               => resp'.status = 500
        /\ \A id \in DOMAIN tasks, body \in TaskPatchBodies :
             ( /\ PATCH_tasks(u, id, body).status = 200
               /\ Serve("PATCH /api/tasks/:id",
                        WhileDbDown(PATCH_tasks(u, id, body), tasks, oidCounter)) )
               => resp'.status = 500
        /\ \A id \in DOMAIN tasks :
             ( /\ DELETE_tasks(u, id).status = 204
               /\ Serve("DELETE /api/tasks/:id",
                        WhileDbDown(DELETE_tasks(u, id), tasks, oidCounter)) )
               => resp'.status = 500 ]_vars

-----------------------------------------------------------------------------
(* Claims about registration *)

\* C18: after any sequence and interleaving of registration requests no two
\* stored users share a username and no two share an email.
C18_UniqueAccounts ==
  \A a, b \in DOMAIN users :
    a # b => /\ users[a].username # users[b].username
             /\ users[a].email # users[b].email

-----------------------------------------------------------------------------
(* Claims about MemStorage *)

\* a step assigns at most one new id in a collection, the value its counter
\* held, which was not a key before; a step that assigns none adds no key;
\* the counter never goes back
AssignsInOrder(store, storeNext, counter, counterNext) ==
  /\ counterNext \in {counter, counter + 1}
  /\ counterNext = counter + 1 =>
       counter \notin DOMAIN store /\ DOMAIN storeNext = DOMAIN store \cup {counter}
  /\ counterNext = counter => DOMAIN storeNext \subseteq DOMAIN store
  /\ \A id \in DOMAIN storeNext : id < counterNext

\* C19: in MemStorage every create assigns the value of its entity's own
\* counter and advances that counter by one, no counter ever goes back (also
\* across deletes), so the ids of one entity type strictly increase and none
\* is assigned twice; a create of one entity type leaves the counters and
\* the records of the other types as they were.
C19_IdsIncreasePerEntity ==
  [][ /\ AssignsInOrder(tasks, tasks', taskIdCounter, taskIdCounter')
      /\ AssignsInOrder(goals, goals', goalIdCounter, goalIdCounter')
      /\ AssignsInOrder(timeBlocks, timeBlocks', timeBlockIdCounter, timeBlockIdCounter')
      /\ taskIdCounter' # taskIdCounter =>
           UNCHANGED <<goals, goalIdCounter, timeBlocks, timeBlockIdCounter>>
      /\ goalIdCounter' # goalIdCounter =>
           UNCHANGED <<tasks, taskIdCounter, timeBlocks, timeBlockIdCounter>>
      /\ timeBlockIdCounter' # timeBlockIdCounter =>
           UNCHANGED <<tasks, taskIdCounter, goals, goalIdCounter>> ]_vars

\* task 1 was created and deleted, task 2 was created after it, and two goals
\* were created in between: the counters of the two types stand apart
C19_Witness ==
  /\ scope = "storage"
  /\ DOMAIN tasks = {FirstId + 1}
  /\ taskIdCounter = FirstId + 2
  /\ DOMAIN goals = {FirstId, FirstId + 1}
  /\ timeBlockIdCounter = FirstId

\* update(id, partial) on `store`: on a stored id it returns the record now
\* stored under id, which carries the partial's value on every field the
\* partial names and the old value on every other field, and no other record
\* and no key changes; on an absent id it returns the not-found signal and
\* leaves the collection as it was
UpdatesExactly(store, id, partial) ==
  LET after == Mem_update(store, id, partial)
      returned == Mem_updateReturns(store, id, partial)
  IN IF id \in DOMAIN store
     THEN /\ DOMAIN after = DOMAIN store
          /\ \A other \in DOMAIN store \ {id} : after[other] = store[other]
          /\ returned = after[id]
          /\ DOMAIN returned = DOMAIN store[id] \cup DOMAIN partial
          /\ \A f \in DOMAIN partial : returned[f] = partial[f]
          /\ \A f \in DOMAIN store[id] \ DOMAIN partial : returned[f] = store[id][f]
     ELSE returned = Empty /\ after = store

-----------------------------------------------------------------------------
(* Claims about the kanban columns *)

\* C21: every stored task has one of the statuses todo, in-progress, done,
\* and every task of a user's list is in exactly one of the client's three
\* columns.
C21_StatusPartition ==
  /\ \A id \in DOMAIN tasks : Get(tasks[id], "status", NULL) \in Statuses
  /\ \A u \in Users : \A id \in GET_tasks(u).id :
       Cardinality({ status \in Statuses : id \in KanbanColumn(u, status) }) = 1

-----------------------------------------------------------------------------
(* Claims about sessions *)

\* C22: in every state a session that stores no user is refused with 401 by
\* the protected routes, and a request on a session that stores a user acts
\* as that user (a task it creates is that user's); in every step a session
\* comes to store a user only by a login answered 200 or a registration
\* answered 201 on that session, a logout on a session leaves it without a
\* user, and GET /api/user answers 401 exactly on a session without a user.
C22_SessionAuthentication ==
  /\ [](\A sid \in Sessions :
          LET acting == deserializeUser(sid)
              posted == POST_tasks(acting, [title |-> "Write spec"], 0)
          IN /\ sessions[sid] = NULL =>
                  /\ posted.status = 401 /\ posted.store = tasks
                  /\ GET_tasks(acting).status = 401
                  /\ GET_goals(acting).status = 401
                  /\ GET_integrations(acting, "todoist").status = 401
                  /\ \A id \in ReqIds(tasks) : DELETE_tasks(acting, id).status = 401
             /\ sessions[sid] # NULL =>
                  /\ acting = sessions[sid]
                  /\ acting \in DOMAIN users
                  /\ posted.status = 201
                  /\ posted.store[posted.id].userId = sessions[sid])
  /\ [][\A sid \in Sessions :
          /\ sessions'[sid] \notin {NULL, sessions[sid]} =>
               /\ resp'.route \in {"POST /api/login", "POST /api/register"}
               /\ resp'.status \in {200, 201}
               /\ resp'.session = sid
          /\ (resp'.route = "POST /api/logout" /\ resp'.session = sid) =>
               sessions'[sid] = NULL
          /\ (resp'.route = "GET /api/user" /\ resp'.session = sid) =>
               ((resp'.status = 401) <=> (sessions'[sid] = NULL))]_vars

\* session s1 registered and logged out and is answered 401 by GET /api/user
\* while session s2 is logged in as the user s1 had registered
C22_Witness ==
  /\ resp = [route |-> "GET /api/user", status |-> 401, session |-> "s1"]
  /\ sessions["s1"] = NULL
  /\ sessions["s2"] \in DOMAIN users
  /\ Cardinality(DOMAIN users) = 1

-----------------------------------------------------------------------------
(* Claims about what a delete leaves alone *)

\* C23: every step in which DELETE /api/tasks/:id is answered 204 removes
\* exactly one task, which a later lookup no longer finds, leaves every
\* other task as it was and leaves the time blocks, the daily plans (with
\* the ids they list) and every other collection unchanged.
C23_DeleteRemovesOnlyTheTask ==
  [][ (resp'.route = "DELETE /api/tasks/:id" /\ resp'.status = 204) =>
        /\ \E id \in DOMAIN tasks :
             /\ Lookup(tasks', id) = Empty
             /\ DOMAIN tasks' = DOMAIN tasks \ {id}
             /\ \A other \in DOMAIN tasks' : tasks'[other] = tasks[other]
        /\ UNCHANGED <<timeBlocks, dailyPlans, goals, integrations, users>> ]_vars

\* a task was deleted while another stays; the time block and the daily plan
\* still name the deleted task
C23_Witness ==
  /\ resp = [route |-> "DELETE /api/tasks/:id", status |-> 204]
  /\ tasks # Empty
  /\ \E b \in DOMAIN timeBlocks : timeBlocks[b].taskId \notin DOMAIN tasks
  /\ \E p \in DOMAIN dailyPlans : dailyPlans[p].taskIds[1] \notin DOMAIN tasks

-----------------------------------------------------------------------------
(* Claims about the owner of a record *)

\* every record that `store` holds before and after a step has kept its userId
KeepsOwner(store, storeNext) ==
  \A id \in DOMAIN store \cap DOMAIN storeNext :
    Get(storeNext[id], "userId", NULL) = Get(store[id], "userId", NULL)

\* C24: no step changes the userId of a stored task, goal, time block, daily
\* plan or integration.
C24_OwnerNeverChanges ==
  [][ /\ KeepsOwner(tasks, tasks')
      /\ KeepsOwner(goals, goals')
      /\ KeepsOwner(timeBlocks, timeBlocks')
      /\ KeepsOwner(dailyPlans, dailyPlans')
      /\ KeepsOwner(integrations, integrations') ]_vars

\* the answer `r` of a POST by user u is a refusal that stores nothing, or
\* it stored exactly one new record, whose userId is u
CreatesFor(u, r, store) ==
  \/ r.status # 201 /\ r.store = store
  \/ /\ r.status = 201
     /\ DOMAIN r.store = DOMAIN store \cup {r.id}
     /\ r.id \notin DOMAIN store
     /\ r.store[r.id].userId = u
     /\ \A id \in DOMAIN store : r.store[id] = store[id]

\* C25: in every reachable state, for every authenticated user and every
\* body, with or without a userId of either user in it, the record a POST to
\* the task, goal, time-block, daily-plan or integration route (the one of
\* the entity family in play) stores is owned by that user.
C25_CreatedForActingUser ==
  \A u \in Users, now \in Clock, named \in {Empty} \cup { [userId |-> v] : v \in Users } :
    /\ scope = "tasks" =>
         \A body \in TaskPostBodies :
           CreatesFor(u, POST_tasks(u, Merge(body, named), now), tasks)
    /\ scope = "goals" =>
         \A body \in GoalPostBodies(ReqIds(goals)) :
           CreatesFor(u, POST_goals(u, Merge(body, named), now), goals)
    /\ scope = "timeBlocks" =>
         \A body \in TimeBlockPostBodies :
           CreatesFor(u, POST_timeblocks(u, Merge(body, named), now), timeBlocks)
    /\ scope = "dailyPlans" =>
         \A body \in DailyPlanPostBodies :
           CreatesFor(u, POST_dailyplan(u, Merge(body, named), now), dailyPlans)
    /\ scope = "integrations" =>
         \A body \in IntegrationPostBodies :
           CreatesFor(u, POST_integrations(u, Merge(body, named), now), integrations)

\* a POST /api/tasks has just been answered 201 and tasks of both users are
\* stored (one of the task bodies names user 2 as userId)
C25_Witness ==
  /\ resp = [route |-> "POST /api/tasks", status |-> 201]
  /\ { tasks[id].userId : id \in DOMAIN tasks } = Users

-----------------------------------------------------------------------------
(* Claims about the routes that read *)

\* a list route answers 200 with exactly the records `ids`
ListsExactly(r, ids) == r.status = 200 /\ r.id = ids

\* a lookup route answers 404 when no record matches and otherwise 200 with
\* the matching records, all of them
LooksUpExactly(r, ids) ==
  IF ids = {} THEN r.status = 404 ELSE r.status = 200 /\ {r.id} = ids

\* C26: every list or lookup route returns the records of the acting user
\* that match its filter, all of them and no record of another user.
C26_ReadsAreScoped ==
  \A u \in Users :
    /\ scope = "tasks" =>
         /\ ListsExactly(GET_tasks(u), { id \in DOMAIN tasks : tasks[id].userId = u })
         /\ \A status \in Statuses :
              ListsExactly(GET_tasks_status(u, status),
                           { id \in DOMAIN tasks :
                               /\ tasks[id].userId = u
                               /\ "status" \in DOMAIN tasks[id]
                               /\ tasks[id].status = status })
    /\ scope = "goals" =>
         /\ ListsExactly(GET_goals(u), { id \in DOMAIN goals : goals[id].userId = u })
         /\ ListsExactly(GET_goals_timeframe(u, GoalForm.timeframe),
                         { id \in DOMAIN goals :
                             /\ goals[id].userId = u
                             /\ "timeframe" \in DOMAIN goals[id]
                             /\ goals[id].timeframe = GoalForm.timeframe })
    /\ scope = "timeBlocks" =>
         \A sd \in BlockTimes, ed \in BlockTimes :
           ListsExactly(GET_timeblocks(u, [startDate |-> sd, endDate |-> ed]),
                        { id \in DOMAIN timeBlocks :
                            /\ timeBlocks[id].userId = u
                            /\ sd <= timeBlocks[id].startTime
                            /\ timeBlocks[id].endTime <= ed })
    /\ scope = "dailyPlans" =>
         \A date \in Dates :
           LooksUpExactly(GET_dailyplan(u, date),
                          { id \in DOMAIN dailyPlans :
                              /\ dailyPlans[id].userId = u
                              /\ "date" \in DOMAIN dailyPlans[id]
                              /\ dailyPlans[id].date \in DayOf(date) })
    /\ scope = "integrations" =>
         \A type \in IntegrationTypes :
           LooksUpExactly(GET_integrations(u, type),
                          { id \in DOMAIN integrations :
                              /\ integrations[id].userId = u
                              /\ "type" \in DOMAIN integrations[id]
                              /\ integrations[id].type = type })

-----------------------------------------------------------------------------
(* Claims about updating a daily plan *)

\* C27: PATCH /api/dailyplan/:id on a stored plan of the acting user answers
\* 200 and the stored plan then carries every field of the body.
C27_OwnerUpdatesPlan ==
  \A id \in DOMAIN dailyPlans, body \in DailyPlanPatchBodies :
    LET r == PATCH_dailyplan(dailyPlans[id].userId, id, body)
    IN /\ r.status = 200
       /\ r.id = id
       /\ id \in DOMAIN r.store
       /\ \A f \in DOMAIN body : Get(r.store[id], f, NULL) = body[f]

-----------------------------------------------------------------------------
(* Claims about the goal form *)

-----------------------------------------------------------------------------
(* Claims about a PATCH interleaved with a DELETE *)

\* C29: when the write of a PATCH /api/tasks/:id runs after the task was
\* deleted, the task is not stored again and the answer is 404.
C29_LatePatchIsNotFound ==
  [][ \A request \in patching \ patching' :
        request.id \notin DOMAIN tasks =>
          /\ request.id \notin DOMAIN tasks'
          /\ resp' = [route |-> "PATCH /api/tasks/:id", status |-> 404] ]_vars

-----------------------------------------------------------------------------
(* Claims about the keys of MemStorage *)

\* C30: every record of a MemStorage map carries as its id the key it is
\* stored under, so the record read under an id has that id.
C30_IdEqualsKey ==
  /\ \A id \in DOMAIN tasks : Lookup(tasks, id).id = id
  /\ \A id \in DOMAIN goals : Lookup(goals, id).id = id
  /\ \A id \in DOMAIN timeBlocks : Lookup(timeBlocks, id).id = id

====
